---- MODULE Spec2Model ----
(***************************************************************************)
(* ppb: a reverse proxy that powers on a Google Compute Engine instance    *)
(* when traffic arrives.  The model covers the power controller            *)
(* (pkg/machine/gce.go), the request handler (main.go) and the binding of  *)
(* the forward target (pkg/proxy/tls.go).                                  *)
(*                                                                         *)
(* Time is measured in seconds and advances in steps of TickSeconds; what  *)
(* happens between two steps (a 2 s poll tick, a remote round trip) takes  *)
(* place at one value of now.                                              *)
(*                                                                         *)
(* A "remote call" is one invocation of getInstanceMetadata or of the      *)
(* start/resume operation of powerOn, the construction of its service      *)
(* client included (either part may fail).                                 *)
(***************************************************************************)
EXTENDS Integers, Sequences, FiniteSets, TLC

\* ------------------------------------------------------------------ bounds
NumProcs == 2            \* request-handling goroutines
TickSeconds == 150       \* granularity of the clock
MaxTicks == 2            \* the clock stops after MaxTicks steps

MaxEntries == 3          \* entries in a forwarded-address header
MaxDepth == 2            \* largest ipDepth
AddrBits == 3            \* width of an address

Procs == 1 .. NumProcs
MaxTime == MaxTicks * TickSeconds

\* ------------------------------------------------------- program constants
PollTimeoutSeconds == 300    \* time.After(5 * time.Minute)
Port == 80                   \* port: 80

\* cooldownSeconds values the handler may be configured with
Cooldowns == {200, 400}

NoHolder == 0                \* powerOnMutex unlocked
ZeroTime == -1               \* the zero time.Time of a fresh machine

Statuses == {"RUNNING", "TERMINATED", "SUSPENDED", "STAGING"}

\* NetworkInterfaces of the instance, as compute.Instance reports them
NicPrivateOnly == << [NetworkIP |-> "10.0.0.5", AccessConfigs |-> << >>] >>
NicBoth == << [NetworkIP |-> "10.0.0.5",
               AccessConfigs |-> << [NatIP |-> "203.0.113.5"] >>] >>
NicPublicOnly == << [NetworkIP |-> "",
                     AccessConfigs |-> << [NatIP |-> "203.0.113.5"] >>] >>
NicSecondPublic == << [NetworkIP |-> "10.0.0.5", AccessConfigs |-> << >>],
                      [NetworkIP |-> "10.0.0.6",
                       AccessConfigs |-> << [NatIP |-> "203.0.113.6"] >>] >>
NicEmptyNat == << [NetworkIP |-> "10.0.0.5",
                   AccessConfigs |-> << [NatIP |-> ""] >>] >>
NicConfigs == { << >>, NicPrivateOnly, NicBoth, NicPublicOnly, NicSecondPublic,
                NicEmptyNat }

\* the deployments the handlers run in: << usePrivateIp, interfaces >>; the
\* first resolves to the NAT address, the second has no usable address
Deployments == { << FALSE, NicBoth >>, << TRUE, NicPublicOnly >> }

Errors == {"nil", "cooldown", "metadata", "setIp", "powerOn", "timeout", "ctx"}

VARIABLES
    now,                 \* the clock (seconds)
    UsePrivateIp,        \* GoogleComputeEngine.UsePrivateIp
    cooldownSeconds,     \* c.PowerOnCooldown, passed to every call
    host,                \* GoogleComputeEngine.host ("" = unknown)
    LastPowerOnAttempt,  \* GoogleComputeEngine.LastPowerOnAttempt
    powerOnMutex,        \* holder of GoogleComputeEngine.powerOnMutex
    vmStatus,            \* status of the instance at the control plane
    vmNics,              \* NetworkInterfaces of the instance
    targetHost,          \* ReverseProxy.Target.Host
    pc,                  \* position of each goroutine
    ctx,                 \* the context its PowerOnWithCooldown call was given
    status,              \* vm.Status as PowerOn read it (local)
    pollStart,           \* when waitForInstanceRunning armed its timeout
    err,                 \* result of the goroutine's latest PowerOnWithCooldown
    resp,                \* what the handler answered last
    reqCtx,              \* r.Context() of the request a handler serves
    filterConfig,        \* Config: AllowedIps, IpForwardedHeader, IpDepth
    request,             \* the request the access filter is applied to
    verdict,             \* what getClientIP and IpIsAllowed returned for it
    proxyHdr,            \* ReverseProxy.Ip, .Host, .Trace
    bound,               \* (history) Target.Host as the request's SetHost set it
    hostMutex,           \* GoogleComputeEngine.hostMutex: writer and readers
    task,                \* position of each task, lock operation by lock operation
    pingCtx,             \* the context of startPingRoutine
    wg,                  \* counter of the sync.WaitGroup of main
    pingURL,             \* host of the ping in progress
    \* ---- observation (history) variables, per call
    inWindow,            \* it found now - lastAttempt < cooldownSeconds
    branch,              \* "cooldown" / "remote": the branch it took
    mySeq,               \* 1: it began the first remote sequence, 2: a later one
    calls,               \* remote calls it issued
    pollFailed,          \* a status query of the poll loop it is in failed
    hostBefore,          \* host when it evaluated the cooldown
    attemptAt,           \* LastPowerOnAttempt when it had evaluated it
    hostAfter,           \* host when it returned
    \* ---- observation (history) variables, global
    starts,              \* start times of the two latest remote sequences
    lateCall             \* a call was issued after the first sequence ended

vars == << now, UsePrivateIp, cooldownSeconds, host, LastPowerOnAttempt,
           powerOnMutex, vmStatus, vmNics, targetHost, pc, ctx, status,
           pollStart, err, resp, reqCtx, filterConfig, request, verdict,
           proxyHdr, bound, hostMutex, task, pingCtx, wg, pingURL,
           inWindow, branch, mySeq, calls, pollFailed, hostBefore, attemptAt,
           hostAfter, starts, lateCall >>

config == << UsePrivateIp, cooldownSeconds, vmNics >>
filterVars == << filterConfig, request, verdict >>
proxyVars == << proxyHdr, bound >>
lockVars == << hostMutex, task, pingCtx, wg, pingURL >>
callHist == << inWindow, branch, mySeq, calls, pollFailed, hostBefore, attemptAt,
              hostAfter >>
histVars == << callHist, starts, lateCall >>

NoCalls == [get |-> 0, start |-> 0, resume |-> 0, poll |-> 0]

\* ------------------------------------------------------------ pure helpers

\* (mutant) the cooldown is never found to hold
InCooldownNever(last, cd) == FALSE

\* (mutant) a known address counts as being in cooldown
InCooldownOrKnown(last, cd) == (last # ZeroTime /\ now - last < cd) \/ host # ""

\* time.Since(m.LastPowerOnAttempt) < cooldownSeconds * time.Second; the zero
\* time lies further back than any cooldown
InCooldown(last, cd) == last # ZeroTime /\ now - last < cd

\* (mutant) the attempt is not recorded
NewAttemptTimeStale == LastPowerOnAttempt

\* m.LastPowerOnAttempt = time.Now()
NewAttemptTime == now

\* (mutant) the cooldown branch fails whatever the address
CooldownResultAlwaysError(h) == "cooldown"

\* the cooldown branch: an error unless m.Host() is known
CooldownResult(h) == IF h = "" THEN "cooldown" ELSE "nil"

\* (mutant) every status but RUNNING leads to powerOn
ActionableNotRunning(st) == st # "RUNNING"

\* PowerOn: only TERMINATED and SUSPENDED lead to powerOn
Actionable(st) == st = "TERMINATED" \/ st = "SUSPENDED"

\* (mutant) powerOn starts the instance whatever the status
TransitionAlwaysStart(st) == "start"

\* powerOn: the switch on status
Transition(st) ==
    IF st = "TERMINATED" THEN "start"
    ELSE IF st = "SUSPENDED" THEN "resume"
    ELSE "unknown"

\* (mutant) the handler ignores the error
FailedNever(e) == FALSE

\* the handler: if err != nil
Failed(e) == e # "nil"

\* (mutant) Lock returns although the gate is held
CanLockAlways == TRUE

\* m.powerOnMutex.Lock() returns only once the gate is free
CanLock == powerOnMutex = NoHolder

\* Target.Host of a new ReverseProxy: no host and no port yet
NoTarget == << "", 0 >>

\* (mutant) the target is bound without the address
JoinHostPortNoHost(h, p) == << "", p >>

\* net.JoinHostPort(host, strconv.Itoa(port))
JoinHostPort(h, p) == << h, p >>

\* index of the first interface with a non-empty NAT address, 0 if none
RECURSIVE FirstPublic(_, _)
FirstPublic(nics, i) ==
    IF i > Len(nics) THEN 0
    ELSE IF Len(nics[i].AccessConfigs) > 0 /\ nics[i].AccessConfigs[1].NatIP # ""
         THEN i
         ELSE FirstPublic(nics, i + 1)

\* (mutant) without a private address, prefer-private falls back to the
\* public one
setIpFallsBack(vm, private, old) ==
    IF Len(vm.NetworkInterfaces) = 0
    THEN [ok |-> FALSE, host |-> old]
    ELSE IF private /\ vm.NetworkInterfaces[1].NetworkIP # ""
    THEN [ok |-> TRUE, host |-> vm.NetworkInterfaces[1].NetworkIP]
    ELSE LET i == FirstPublic(vm.NetworkInterfaces, 1) IN
         IF i # 0
         THEN [ok |-> TRUE, host |-> vm.NetworkInterfaces[i].AccessConfigs[1].NatIP]
         ELSE [ok |-> FALSE, host |-> old]

\* (mutant) the preference is ignored: a public address wins when there is one
setIpPublicFirst(vm, private, old) ==
    IF Len(vm.NetworkInterfaces) = 0
    THEN [ok |-> FALSE, host |-> old]
    ELSE LET i == FirstPublic(vm.NetworkInterfaces, 1) IN
         IF i # 0
         THEN [ok |-> TRUE, host |-> vm.NetworkInterfaces[i].AccessConfigs[1].NatIP]
         ELSE IF private /\ vm.NetworkInterfaces[1].NetworkIP # ""
         THEN [ok |-> TRUE, host |-> vm.NetworkInterfaces[1].NetworkIP]
         ELSE [ok |-> FALSE, host |-> old]

\* (mutant) a failed resolution clears the address
setIpClearsOnError(vm, private, old) ==
    IF Len(vm.NetworkInterfaces) = 0
    THEN [ok |-> FALSE, host |-> ""]
    ELSE IF private /\ vm.NetworkInterfaces[1].NetworkIP = ""
    THEN [ok |-> FALSE, host |-> ""]
    ELSE IF private
    THEN [ok |-> TRUE, host |-> vm.NetworkInterfaces[1].NetworkIP]
    ELSE LET i == FirstPublic(vm.NetworkInterfaces, 1) IN
         IF i # 0
         THEN [ok |-> TRUE, host |-> vm.NetworkInterfaces[i].AccessConfigs[1].NatIP]
         ELSE [ok |-> FALSE, host |-> ""]

\* (mutant) no check of the private address: it is stored even when empty
setIpStoresEmpty(vm, private, old) ==
    IF Len(vm.NetworkInterfaces) = 0
    THEN [ok |-> FALSE, host |-> old]
    ELSE IF private
    THEN [ok |-> TRUE, host |-> vm.NetworkInterfaces[1].NetworkIP]
    ELSE LET i == FirstPublic(vm.NetworkInterfaces, 1) IN
         IF i # 0
         THEN [ok |-> TRUE, host |-> vm.NetworkInterfaces[i].AccessConfigs[1].NatIP]
         ELSE [ok |-> FALSE, host |-> old]

\* setIp(vm): [ok, host] where host is the value of m.host afterwards
setIp(vm, private, old) ==
    IF Len(vm.NetworkInterfaces) = 0
    THEN [ok |-> FALSE, host |-> old]
    ELSE IF private /\ vm.NetworkInterfaces[1].NetworkIP = ""
    THEN [ok |-> FALSE, host |-> old]
    ELSE IF private
    THEN [ok |-> TRUE, host |-> vm.NetworkInterfaces[1].NetworkIP]
    ELSE LET i == FirstPublic(vm.NetworkInterfaces, 1) IN
         IF i # 0
         THEN [ok |-> TRUE, host |-> vm.NetworkInterfaces[i].AccessConfigs[1].NatIP]
         ELSE [ok |-> FALSE, host |-> old]

\* the compute.Instance a successful Instances.Get returns now
Instance == [Status |-> vmStatus, NetworkInterfaces |-> vmNics]

\* (mutant) the remote call does not look at its context
OutcomesIgnoreCtx(c) == BOOLEAN

\* outcomes of a remote call made with context c: it fails once c is done
Outcomes(c) == IF c = "done" THEN {FALSE} ELSE BOOLEAN

\* ---------------------------------------------------------- access filter
\* A text is a sequence of lexemes: "," " " ":" "[" "]" and runs of other
\* characters ("10.0.0.1", "8080").  An address is [fam, val]: its family
\* (4, 6; 0 for the nil net.IP) and its AddrBits bits.

NilIP == [fam |-> 0, val |-> 0]
V4Value == [t \in {"10.0.0.1", "10.0.0.2", "192.168.1.1", "8.8.8.8"} |->
               CASE t = "10.0.0.1" -> 0
                 [] t = "10.0.0.2" -> 1
                 [] t = "192.168.1.1" -> 4
                 [] t = "8.8.8.8" -> 6]
V6Loopback == << ":", ":", "1" >>

\* net.ParseIP: the address a text denotes, nil if it denotes none
ParseIP(t) ==
    IF Len(t) = 1 /\ t[1] \in DOMAIN V4Value
    THEN [fam |-> 4, val |-> V4Value[t[1]]]
    ELSE IF t = V6Loopback THEN [fam |-> 6, val |-> 1]
    ELSE NilIP

\* CIDR blocks [fam, base, bits]: 10.0.0.0/8, 192.168.1.1/32, 0.0.0.0/0, ::1/128
Block10 == [fam |-> 4, base |-> 0, bits |-> AddrBits - 1]
Block192 == [fam |-> 4, base |-> 4, bits |-> AddrBits]
BlockAny4 == [fam |-> 4, base |-> 0, bits |-> 0]
BlockLoop6 == [fam |-> 6, base |-> 1, bits |-> AddrBits]

\* (mutant) the mask is ignored: only the network address itself matches
BlockContainsExact(b, ip) == ip.fam = b.fam /\ ip.val = b.base

\* net.IPNet.Contains: same family (the nil IP has none) and same prefix
BlockContains(b, ip) ==
    /\ ip.fam # 0
    /\ ip.fam = b.fam
    /\ ip.val \div 2 ^ (AddrBits - b.bits) = b.base \div 2 ^ (AddrBits - b.bits)

\* strings.Contains(t, ch)
StrContains(t, ch) == \E i \in 1 .. Len(t) : t[i] = ch

\* strings.Index / strings.LastIndex (0 when ch does not occur)
Index(t, ch) ==
    IF StrContains(t, ch)
    THEN CHOOSE i \in 1 .. Len(t) : t[i] = ch /\ \A j \in 1 .. i - 1 : t[j] # ch
    ELSE 0
LastIndex(t, ch) ==
    IF StrContains(t, ch)
    THEN CHOOSE i \in 1 .. Len(t) :
             t[i] = ch /\ \A j \in i + 1 .. Len(t) : t[j] # ch
    ELSE 0

\* strings.Split(t, sep): always at least one component
RECURSIVE Split(_, _)
Split(t, sep) ==
    LET i == Index(t, sep) IN
    IF i = 0 THEN << t >>
    ELSE << SubSeq(t, 1, i - 1) >> \o Split(SubSeq(t, i + 1, Len(t)), sep)

\* strings.TrimSpace
RECURSIVE TrimSpace(_)
TrimSpace(t) ==
    IF t = << >> THEN t
    ELSE IF t[1] = " " THEN TrimSpace(Tail(t))
    ELSE IF t[Len(t)] = " " THEN TrimSpace(SubSeq(t, 1, Len(t) - 1))
    ELSE t

\* net.SplitHostPort: [host, ok]; host is empty when the split fails
SplitHostPort(t) ==
    LET i == LastIndex(t, ":")
        bad == [host |-> << >>, ok |-> FALSE]
    IN
    IF i = 0 THEN bad
    ELSE IF t[1] = "["
    THEN LET end == Index(t, "]") IN
         IF end = 0 \/ end + 1 # i THEN bad
         ELSE IF StrContains(SubSeq(t, 2, Len(t)), "[")
                 \/ StrContains(SubSeq(t, end + 1, Len(t)), "]")
         THEN bad
         ELSE [host |-> SubSeq(t, 2, end - 1), ok |-> TRUE]
    ELSE LET h == SubSeq(t, 1, i - 1) IN
         IF StrContains(h, ":") \/ StrContains(t, "[") \/ StrContains(t, "]")
         THEN bad
         ELSE [host |-> h, ok |-> TRUE]

\* (mutant) the forwarded-address header is read whatever the configured name
HeaderGetAnyName(r, name) == r.Header

\* r.Header.Get(c.IpForwardedHeader): nothing under the empty name
HeaderGet(r, name) == IF name = "" THEN << >> ELSE r.Header

\* getClientIP, the loop: walk the components from the right, depth times
RECURSIVE Walk(_, _, _)
Walk(components, i, depth) ==
    IF i < 1 THEN << >>
    ELSE IF depth = 0 THEN TrimSpace(components[i])
    ELSE Walk(components, i - 1, depth - 1)

\* (mutant) the depth counts from the left
SelectedEntryFromLeft(c, r) ==
    LET components == Split(HeaderGet(r, c.IpForwardedHeader), ",") IN
    IF c.IpForwardedHeader = "" \/ c.IpDepth < 0
       \/ c.IpDepth >= Len(components)
    THEN << >>
    ELSE TrimSpace(components[c.IpDepth + 1])

\* getClientIP: the value of ip after the header has been looked at
SelectedEntry(c, r) ==
    LET ip == HeaderGet(r, c.IpForwardedHeader) IN
    IF c.IpForwardedHeader # ""
    THEN LET components == Split(ip, ",") IN
         Walk(components, Len(components), c.IpDepth)
    ELSE ip

\* (mutant) with the header configured an empty ip is kept
CandidateKeepsEmpty(c, r) ==
    IF c.IpForwardedHeader = "" THEN r.RemoteAddr ELSE SelectedEntry(c, r)

\* getClientIP: r.RemoteAddr stands in for an empty ip
Candidate(c, r) ==
    LET ip == SelectedEntry(c, r) IN
    IF ip = << >> THEN r.RemoteAddr ELSE ip

\* getClientIP: a text with a colon is split into host and port
StripPort(t) == IF StrContains(t, ":") THEN SplitHostPort(t).host ELSE t

getClientIP(c, r) == ParseIP(StripPort(Candidate(c, r)))

\* (mutant) every block has to contain the address
IpIsAllowedByAll(c, r) ==
    LET ip == getClientIP(c, r) IN
    \A i \in 1 .. Len(c.AllowedIps) : BlockContains(c.AllowedIps[i], ip)

IpIsAllowed(c, r) ==
    LET ip == getClientIP(c, r) IN
    \E i \in 1 .. Len(c.AllowedIps) : BlockContains(c.AllowedIps[i], ip)

\* r.RemoteAddr of a request: always host:port
Peer10 == << "10.0.0.1", ":", "8080" >>
Peer192 == << "192.168.1.1", ":", "80" >>
Peer8 == << "8.8.8.8", ":", "443" >>
PeerLoop6 == << "[", ":", ":", "1", "]", ":", "8080" >>
Peers == {Peer10, Peer192, Peer8, PeerLoop6}

\* what a forwarded-address header may hold between two commas
EntryTexts ==
    { << "10.0.0.2" >>, << " ", "8.8.8.8" >>, << "192.168.1.1", " " >>,
      << "bogus" >>, << >>, << " " >>, V6Loopback }

\* strings.Join(entries, ",")
RECURSIVE JoinComma(_)
JoinComma(entries) ==
    IF entries = << >> THEN << >>
    ELSE IF Len(entries) = 1 THEN entries[1]
    ELSE entries[1] \o << "," >> \o JoinComma(Tail(entries))

HeaderEntries == UNION { [1 .. n -> EntryTexts] : n \in 0 .. MaxEntries }
Requests ==
    { [RemoteAddr |-> a, Header |-> JoinComma(e)] :
          a \in Peers, e \in HeaderEntries }

AllowLists ==
    { << >>, << Block10 >>, << Block10, Block192 >>, << BlockAny4 >>,
      << BlockLoop6, Block10 >> }
FilterConfigs ==
    [AllowedIps : AllowLists, IpForwardedHeader : {"", "X-Forwarded-For"},
     IpDepth : -1 .. MaxDepth]

\* the access filter of the README: private networks, X-Forwarded-For, depth 0
ReadmeFilter ==
    [AllowedIps |-> << Block10, Block192 >>,
     IpForwardedHeader |-> "X-Forwarded-For", IpDepth |-> 0]

\* the requests the handlers of the model receive
HandlerRequests ==
    { [RemoteAddr |-> Peer10, Header |-> << >>],
      [RemoteAddr |-> Peer8, Header |-> << >>],
      [RemoteAddr |-> Peer8, Header |-> << "10.0.0.2" >>] }

\* c.IpIsAllowed(r) for each of them, under the server's filter
HandlerVerdict ==
    [r \in HandlerRequests |-> IpIsAllowed(ReadmeFilter, r)]

NoRequest == [RemoteAddr |-> << >>, Header |-> << >>]
NoVerdict == [done |-> FALSE, candidate |-> << >>, ip |-> NilIP, allowed |-> FALSE]

\* Ip, Host and Trace of a new ReverseProxy: nil
NoHeaders == [Ip |-> 0, Host |-> 0, Trace |-> 0]

\* X-Forwarded-For, Host and X-Cloud-Trace-Context of the request goroutine p
\* serves; the requests served at the same time come from different clients
\* for different hosts, so each value stands for its request
RequestHeaders(p) == [Ip |-> p, Host |-> p, Trace |-> p]

\* the tasks that take locks: the request handlers and the ping routine
Prober == NumProcs + 1
Tasks == Procs \cup {Prober}

\* ------------------------------------------------------------------- Init
\* the server's access filter; no request is being looked at
ServerFilter ==
    /\ filterConfig = ReadmeFilter
    /\ request = NoRequest

\* a fresh machine (NewGceMachine) behind an idle server
Fresh ==
    /\ now = 0
    /\ host = ""
    /\ LastPowerOnAttempt = ZeroTime
    /\ powerOnMutex = NoHolder
    /\ vmStatus \in Statuses
    /\ targetHost = NoTarget
    /\ pc = [p \in Procs |-> "idle"]
    /\ ctx = [p \in Procs |-> "background"]
    /\ status = [p \in Procs |-> ""]
    /\ pollStart = [p \in Procs |-> 0]
    /\ err = [p \in Procs |-> "nil"]
    /\ resp = [p \in Procs |-> 0]
    /\ reqCtx = [p \in Procs |-> "live"]
    /\ verdict = NoVerdict
    /\ proxyHdr = NoHeaders
    /\ bound = [p \in Procs |-> NoTarget]
    /\ hostMutex = [w |-> NoHolder, r |-> {}]
    /\ task = [t \in Tasks |-> IF t = Prober THEN "select" ELSE "idle"]
    /\ pingCtx = "live"
    /\ wg = 1
    /\ pingURL = ""
    /\ inWindow = [p \in Procs |-> FALSE]
    /\ branch = [p \in Procs |-> ""]
    /\ mySeq = [p \in Procs |-> 0]
    /\ calls = [p \in Procs |-> NoCalls]
    /\ pollFailed = [p \in Procs |-> FALSE]
    /\ hostBefore = [p \in Procs |-> ""]
    /\ attemptAt = [p \in Procs |-> ZeroTime]
    /\ hostAfter = [p \in Procs |-> ""]
    /\ starts = << ZeroTime, ZeroTime >>
    /\ lateCall = FALSE

Init ==
    /\ \E d \in Deployments : UsePrivateIp = d[1] /\ vmNics = d[2]
    /\ cooldownSeconds \in Cooldowns
    /\ ServerFilter
    /\ Fresh

\* the deployment of the README: public addresses, an instance with both,
\* stopped or up when the server starts
InitClient ==
    /\ UsePrivateIp = FALSE
    /\ vmNics = NicBoth
    /\ cooldownSeconds = 200
    /\ ServerFilter
    /\ Fresh
    /\ vmStatus \in {"TERMINATED", "RUNNING"}

\* any address preference against any set of interfaces
InitResolve ==
    /\ UsePrivateIp \in BOOLEAN
    /\ vmNics \in NicConfigs
    /\ cooldownSeconds \in Cooldowns
    /\ ServerFilter
    /\ Fresh

\* the access filter alone: any configuration against any request
InitFilter ==
    /\ UsePrivateIp = FALSE
    /\ vmNics = NicBoth
    /\ cooldownSeconds = 200
    /\ filterConfig \in FilterConfigs
    /\ request \in Requests
    /\ Fresh

\* a goroutine is inside the remote sequence (PowerOn and what it calls)
InSequence(p) == pc[p] \in {"get", "powerOn", "poll"}

\* the first remote sequence has begun and ended
FirstDone ==
    /\ starts[2] # ZeroTime
    /\ \A p \in Procs : ~(InSequence(p) /\ mySeq[p] = 1)

\* ---------------------------------------------------------------- actions

\* (mutant) no deferred Unlock: the gate stays with the caller
ReturnKeepsGate(p, e) ==
    /\ powerOnMutex' = powerOnMutex
    /\ err' = [err EXCEPT ![p] = e]
    /\ pc' = [pc EXCEPT ![p] = "ret"]
    /\ hostAfter' = [hostAfter EXCEPT ![p] = host']

\* return from PowerOnWithCooldown: the deferred Unlock runs, the caller
\* receives e
Return(p, e) ==
    /\ powerOnMutex' = NoHolder
    /\ err' = [err EXCEPT ![p] = e]
    /\ pc' = [pc EXCEPT ![p] = "ret"]
    /\ hostAfter' = [hostAfter EXCEPT ![p] = host']

\* (mutant) the handler passes the request's context
HandlerContextOfRequest(r) == r

\* main.go handler: ctx := context.Background()
HandlerContext(r) == "background"

\* (mutant) no return after http.Error: the handler goes on to the call
RejectWithoutReturn(p) ==
    /\ resp' = [resp EXCEPT ![p] = 403]
    /\ pc' = [pc EXCEPT ![p] = "call"]
    /\ lateCall' = (lateCall \/ FirstDone)

\* main.go handler: http.Error(w, "Forbidden", 403); return
Reject(p) ==
    /\ resp' = [resp EXCEPT ![p] = 403]
    /\ UNCHANGED << pc, lateCall >>

\* main.go handler: a request arrives; IpIsAllowed decides; an allowed one
\* calls PowerOnWithCooldown(context.Background(), c.PowerOnCooldown)
Request(p) ==
    /\ pc[p] = "idle"
    /\ \E r \in HandlerRequests :
         IF HandlerVerdict[r]
         THEN /\ pc' = [pc EXCEPT ![p] = "call"]
              /\ resp' = [resp EXCEPT ![p] = 0]
              /\ lateCall' = (lateCall \/ FirstDone)
         ELSE Reject(p)
    /\ err' = [err EXCEPT ![p] = "nil"]
    /\ reqCtx' = [reqCtx EXCEPT ![p] = "live"]
    /\ ctx' = [ctx EXCEPT ![p] = HandlerContext(reqCtx'[p])]
    /\ UNCHANGED << now, config, filterVars, proxyVars, lockVars, host, LastPowerOnAttempt, powerOnMutex,
                    vmStatus, targetHost, status, pollStart, callHist,
                    starts >>

\* the client of the request goes away: r.Context() is cancelled, and so is
\* any context derived from it
ClientDisconnect(p) ==
    /\ pc[p] \in {"call", "get", "powerOn", "poll", "serve"}
    /\ reqCtx[p] = "live"
    /\ reqCtx' = [reqCtx EXCEPT ![p] = "done"]
    /\ ctx' = [ctx EXCEPT ![p] = IF @ = "live" THEN "done" ELSE @]
    /\ UNCHANGED << now, config, filterVars, proxyVars, lockVars, host, LastPowerOnAttempt, powerOnMutex,
                    vmStatus, targetHost, pc, status, pollStart, err, resp,
                    histVars >>

\* a caller other than the handler calls PowerOnWithCooldown with a context
\* it can cancel
DirectCall(p) ==
    /\ pc[p] = "idle"
    /\ pc' = [pc EXCEPT ![p] = "call"]
    /\ ctx' = [ctx EXCEPT ![p] = "live"]
    /\ lateCall' = (lateCall \/ FirstDone)
    /\ UNCHANGED << now, reqCtx, config, filterVars, proxyVars, lockVars, host, LastPowerOnAttempt, powerOnMutex,
                    vmStatus, targetHost, status, pollStart, err, resp,
                    callHist, starts >>

\* that caller cancels the context while its call polls (earlier, a cancelled
\* context only makes the remote call in progress fail, as it may anyway)
Cancel(p) ==
    /\ ctx[p] = "live"
    /\ pc[p] = "poll"
    /\ ctx' = [ctx EXCEPT ![p] = "done"]
    /\ UNCHANGED << now, reqCtx, config, filterVars, proxyVars, lockVars, host, LastPowerOnAttempt, powerOnMutex,
                    vmStatus, targetHost, pc, status, pollStart, err, resp,
                    histVars >>

\* PowerOnWithCooldown up to the call of PowerOn: take the gate and evaluate
\* the cooldown; either return from the cooldown branch (the deferred Unlock
\* frees the gate again) or record the attempt and enter PowerOn holding it
PowerOnWithCooldown(p) ==
    /\ pc[p] = "call"
    /\ CanLock
    /\ hostBefore' = [hostBefore EXCEPT ![p] = host]
    /\ inWindow' = [inWindow EXCEPT ![p] =
                       LastPowerOnAttempt # ZeroTime
                       /\ now - LastPowerOnAttempt < cooldownSeconds]
    /\ host' = host
    /\ IF InCooldown(LastPowerOnAttempt, cooldownSeconds)
       THEN /\ branch' = [branch EXCEPT ![p] = "cooldown"]
            /\ Return(p, CooldownResult(host))
            /\ UNCHANGED << LastPowerOnAttempt, mySeq, starts >>
       ELSE /\ powerOnMutex' = p
            /\ LastPowerOnAttempt' = NewAttemptTime
            /\ branch' = [branch EXCEPT ![p] = "remote"]
            /\ mySeq' = [mySeq EXCEPT ![p] =
                           IF starts[2] = ZeroTime THEN 1 ELSE 2]
            /\ starts' = << starts[2], now >>
            /\ pc' = [pc EXCEPT ![p] = "get"]
            /\ UNCHANGED << err, hostAfter >>
    /\ attemptAt' = [attemptAt EXCEPT ![p] = LastPowerOnAttempt']
    /\ UNCHANGED << now, reqCtx, config, filterVars, proxyVars, lockVars, vmStatus, targetHost, ctx, status,
                    pollStart, resp, calls, pollFailed, lateCall >>

\* PowerOn: the initial status query and the dispatch on vm.Status
PowerOn(p) ==
    /\ pc[p] = "get"
    /\ calls' = [calls EXCEPT ![p].get = @ + 1]
    /\ \E ok \in Outcomes(ctx[p]) :
         IF ~ok
         THEN /\ host' = host
              /\ Return(p, "metadata")
              /\ UNCHANGED status
         ELSE LET vm == Instance IN
              /\ status' = [status EXCEPT ![p] = vm.Status]
              /\ IF vm.Status = "RUNNING"
                 THEN LET r == setIp(vm, UsePrivateIp, host) IN
                      /\ host' = r.host
                      /\ Return(p, IF r.ok THEN "nil" ELSE "setIp")
                 ELSE IF ~Actionable(vm.Status)
                 THEN /\ host' = host
                      /\ Return(p, "nil")
                 ELSE /\ pc' = [pc EXCEPT ![p] = "powerOn"]
                      /\ UNCHANGED << host, powerOnMutex, err, hostAfter >>
    /\ UNCHANGED << now, reqCtx, config, filterVars, proxyVars, lockVars, LastPowerOnAttempt, vmStatus, targetHost,
                    ctx, pollStart, resp, inWindow, branch, mySeq, pollFailed,
                    hostBefore, attemptAt, starts, lateCall >>

\* powerOn(ctx, status): Start for TERMINATED, Resume for SUSPENDED, an error
\* for any other status; on success PowerOn goes on to waitForInstanceRunning
powerOn(p) ==
    /\ pc[p] = "powerOn"
    /\ host' = host
    /\ LET t == Transition(status[p]) IN
       IF t = "unknown"
       THEN /\ Return(p, "powerOn")
            /\ UNCHANGED << vmStatus, pollStart, calls >>
       ELSE /\ calls' = [calls EXCEPT ![p] =
                           IF t = "start"
                           THEN [@ EXCEPT !.start = @ + 1]
                           ELSE [@ EXCEPT !.resume = @ + 1]]
            /\ \E ok \in Outcomes(ctx[p]) :
                 IF ~ok
                 THEN /\ Return(p, "powerOn")
                      /\ UNCHANGED << vmStatus, pollStart >>
                 ELSE /\ vmStatus' = IF vmStatus \in {"TERMINATED", "SUSPENDED"}
                                     THEN "STAGING" ELSE vmStatus
                      /\ pollStart' = [pollStart EXCEPT ![p] = now]
                      /\ pc' = [pc EXCEPT ![p] = "poll"]
                      /\ UNCHANGED << powerOnMutex, err, hostAfter >>
    /\ UNCHANGED << now, reqCtx, config, filterVars, proxyVars, lockVars, LastPowerOnAttempt, targetHost, ctx, status,
                    resp, inWindow, branch, mySeq, pollFailed, hostBefore, attemptAt,
                    starts, lateCall >>

\* (mutant) a failed status query ends the poll loop
SkipFailureReturns(p) ==
    /\ host' = host
    /\ Return(p, "metadata")

\* waitForInstanceRunning: slog.Warn("Failed to fetch instance status,
\* retrying..."); continue
SkipFailure(p) == UNCHANGED << host, powerOnMutex, err, pc, hostAfter >>

\* waitForInstanceRunning: case <-ticker.C
PollTick(p) ==
    /\ pc[p] = "poll"
    /\ calls' = [calls EXCEPT ![p].poll = 1]
    /\ \E ok \in Outcomes(ctx[p]) :
         IF ~ok
         THEN /\ pollFailed' = [pollFailed EXCEPT ![p] = TRUE]
              /\ SkipFailure(p)
         ELSE IF Instance.Status = "RUNNING"
              THEN LET r == setIp(Instance, UsePrivateIp, host) IN
                   /\ host' = r.host
                   /\ Return(p, IF r.ok THEN "nil" ELSE "setIp")
                   /\ pollFailed' = [pollFailed EXCEPT ![p] = FALSE]
              ELSE UNCHANGED << host, powerOnMutex, err, pc, hostAfter,
                                pollFailed >>
    /\ UNCHANGED << now, reqCtx, config, filterVars, proxyVars, lockVars, LastPowerOnAttempt, vmStatus, targetHost,
                    ctx, status, pollStart, resp, inWindow, branch, mySeq,
                    hostBefore, attemptAt, starts, lateCall >>

\* waitForInstanceRunning: case <-timeout
PollTimeout(p) ==
    /\ pc[p] = "poll"
    /\ now - pollStart[p] >= PollTimeoutSeconds
    /\ host' = host
    /\ Return(p, "timeout")
    /\ pollFailed' = [pollFailed EXCEPT ![p] = FALSE]
    /\ UNCHANGED << now, reqCtx, config, filterVars, proxyVars, lockVars, LastPowerOnAttempt, vmStatus, targetHost,
                    ctx, status, pollStart, resp, inWindow, branch, mySeq,
                    calls, hostBefore, attemptAt, starts, lateCall >>

\* waitForInstanceRunning: case <-ctx.Done()
PollCancelled(p) ==
    /\ pc[p] = "poll"
    /\ ctx[p] = "done"
    /\ host' = host
    /\ Return(p, "ctx")
    /\ pollFailed' = [pollFailed EXCEPT ![p] = FALSE]
    /\ UNCHANGED << now, reqCtx, config, filterVars, proxyVars, lockVars, LastPowerOnAttempt, vmStatus, targetHost,
                    ctx, status, pollStart, resp, inWindow, branch, mySeq,
                    calls, hostBefore, attemptAt, starts, lateCall >>

\* what a goroutine forgets when it leaves its PowerOnWithCooldown call behind
Forget(p) ==
    /\ status' = [status EXCEPT ![p] = ""]
    /\ pollStart' = [pollStart EXCEPT ![p] = 0]
    /\ inWindow' = [inWindow EXCEPT ![p] = FALSE]
    /\ branch' = [branch EXCEPT ![p] = ""]
    /\ mySeq' = [mySeq EXCEPT ![p] = 0]
    /\ calls' = [calls EXCEPT ![p] = NoCalls]
    /\ pollFailed' = [pollFailed EXCEPT ![p] = FALSE]
    /\ hostBefore' = [hostBefore EXCEPT ![p] = ""]
    /\ attemptAt' = [attemptAt EXCEPT ![p] = ZeroTime]
    /\ hostAfter' = [hostAfter EXCEPT ![p] = ""]

\* the handler of the README after a successful PowerOnWithCooldown:
\* p.SetRequestHeaders(r) stores the request's values in the proxy object
SetRequestHeaders(p) ==
    /\ pc[p] = "ret"
    /\ ctx[p] = "background"
    /\ ~Failed(err[p])
    /\ proxyHdr' = RequestHeaders(p)
    /\ pc' = [pc EXCEPT ![p] = "hdrs"]
    /\ UNCHANGED << bound, now, reqCtx, config, filterVars, host, LastPowerOnAttempt,
                    powerOnMutex, vmStatus, targetHost, ctx, status, pollStart,
                    err, resp, histVars, lockVars >>

\* main.go handler after PowerOnWithCooldown: 503 on error, else p.SetHost()
\* (in the README's handler p.SetRequestHeaders(r) comes before p.SetHost())
SetHost(p) ==
    /\ pc[p] \in {"ret", "hdrs"}
    /\ ctx[p] = "background"
    /\ IF Failed(err[p])
       THEN /\ resp' = [resp EXCEPT ![p] = 503]
            /\ pc' = [pc EXCEPT ![p] = "idle"]
            /\ reqCtx' = [reqCtx EXCEPT ![p] = "live"]
            /\ UNCHANGED targetHost
       ELSE /\ targetHost' = JoinHostPort(host, Port)
            /\ pc' = [pc EXCEPT ![p] = "serve"]
            /\ UNCHANGED << resp, reqCtx >>
    /\ bound' = [bound EXCEPT ![p] = IF Failed(err[p]) THEN NoTarget
                                      ELSE targetHost']
    /\ Forget(p)
    /\ UNCHANGED << now, config, filterVars, proxyHdr, lockVars, host, LastPowerOnAttempt, powerOnMutex,
                    vmStatus, ctx, err, starts, lateCall >>

\* ReverseProxy.ServeHTTP: the request goes to p.Target with the request's
\* context (a cancelled one aborts the round trip: 502) and, where the proxy
\* has them, with the header values p.Ip, p.Host and p.Trace hold when Rewrite
\* runs; the handler returns
ServeHTTP(p) ==
    /\ pc[p] = "serve"
    /\ resp' = [resp EXCEPT ![p] = IF reqCtx[p] = "done" THEN 502 ELSE 200]
    /\ pc' = [pc EXCEPT ![p] = "idle"]
    /\ reqCtx' = [reqCtx EXCEPT ![p] = "live"]
    /\ bound' = [bound EXCEPT ![p] = NoTarget]
    /\ UNCHANGED << now, config, filterVars, proxyHdr, lockVars, host, LastPowerOnAttempt, powerOnMutex,
                    vmStatus, targetHost, ctx, status, pollStart, err,
                    histVars >>

\* the direct caller has its result; the goroutine is free for the next call
DirectReturn(p) ==
    /\ pc[p] = "ret"
    /\ ctx[p] # "background"
    /\ pc' = [pc EXCEPT ![p] = "idle"]
    /\ ctx' = [ctx EXCEPT ![p] = "background"]
    /\ err' = [err EXCEPT ![p] = "nil"]
    /\ Forget(p)
    /\ UNCHANGED << now, reqCtx, config, filterVars, proxyVars, lockVars, host, LastPowerOnAttempt, powerOnMutex,
                    vmStatus, targetHost, resp, starts, lateCall >>

\* the clock advances; a poll loop whose context is done does not sleep
\* through a clock step (its select and its status query return on ctx.Done)
Tick ==
    /\ now < MaxTime
    /\ \A p \in Procs : ~(pc[p] = "poll" /\ ctx[p] = "done")
    /\ now' = now + TickSeconds
    /\ UNCHANGED << reqCtx, config, filterVars, proxyVars, lockVars, host, LastPowerOnAttempt, powerOnMutex, vmStatus,
                    targetHost, pc, ctx, status, pollStart, err, resp,
                    histVars >>

\* the instance changes state outside the proxy: it finishes booting, or it
\* is stopped or suspended by someone else
VmChange ==
    /\ \/ vmStatus = "STAGING" /\ vmStatus' = "RUNNING"
       \/ vmStatus = "RUNNING" /\ vmStatus' \in {"TERMINATED", "SUSPENDED"}
    /\ UNCHANGED << now, reqCtx, config, filterVars, proxyVars, lockVars, host, LastPowerOnAttempt, powerOnMutex,
                    targetHost, pc, ctx, status, pollStart, err, resp,
                    histVars >>

\* the proxy as main.go runs it: every call comes from the request handler,
\* with context.Background()
Next ==
    \/ \E p \in Procs : Request(p)
    \/ \E p \in Procs : PowerOnWithCooldown(p)
    \/ \E p \in Procs : PowerOn(p)
    \/ \E p \in Procs : powerOn(p)
    \/ \E p \in Procs : PollTick(p)
    \/ \E p \in Procs : PollTimeout(p)
    \/ \E p \in Procs : SetHost(p)
    \/ \E p \in Procs : ServeHTTP(p)
    \/ Tick
    \/ VmChange

Spec == Init /\ [][Next]_vars

\* the same with clients that may go away while their request is handled
NextClient ==
    \/ Next
    \/ \E p \in Procs : ClientDisconnect(p)

SpecClient == InitClient /\ [][NextClient]_vars

\* the proxy as the README's main runs it: the handler stores the request's
\* headers in the proxy object before it binds the target
NextProxy ==
    \/ \E p \in Procs : Request(p)
    \/ \E p \in Procs : PowerOnWithCooldown(p)
    \/ \E p \in Procs : PowerOn(p)
    \/ \E p \in Procs : powerOn(p)
    \/ \E p \in Procs : PollTick(p)
    \/ \E p \in Procs : PollTimeout(p)
    \/ \E p \in Procs : SetRequestHeaders(p)
    \/ \E p \in Procs : SetHost(p) /\ (pc[p] = "hdrs" \/ Failed(err[p]))
    \/ \E p \in Procs : ServeHTTP(p)
    \/ Tick
    \/ VmChange

SpecProxy == InitClient /\ [][NextProxy]_vars

\* the machine package under any callers of PowerOnWithCooldown, each with a
\* context it may cancel
NextApi ==
    \/ \E p \in Procs : DirectCall(p)
    \/ \E p \in Procs : Cancel(p)
    \/ \E p \in Procs : PowerOnWithCooldown(p)
    \/ \E p \in Procs : PowerOn(p)
    \/ \E p \in Procs : powerOn(p)
    \/ \E p \in Procs : PollTick(p)
    \/ \E p \in Procs : PollTimeout(p)
    \/ \E p \in Procs : PollCancelled(p)
    \/ \E p \in Procs : DirectReturn(p)
    \/ Tick
    \/ VmChange

SpecApi == Init /\ [][NextApi]_vars

\* the select of waitForInstanceRunning takes a case that stays ready; the
\* poll loop reads neither the address preference nor the interfaces, so the
\* callers are those of the README's deployment
SpecApiFair ==
    /\ InitClient
    /\ [][NextApi]_vars
    /\ \A p \in Procs : WF_vars(PollCancelled(p))

\* the access filter is applied to the request: getClientIP up to the
\* fallback, its result, and the result of IpIsAllowed
Filter ==
    /\ ~verdict.done
    /\ verdict' = [done |-> TRUE,
                   candidate |-> Candidate(filterConfig, request),
                   ip |-> getClientIP(filterConfig, request),
                   allowed |-> IpIsAllowed(filterConfig, request)]
    /\ UNCHANGED << now, reqCtx, config, filterConfig, request, proxyVars, lockVars, host,
                    LastPowerOnAttempt, powerOnMutex, vmStatus, targetHost,
                    pc, ctx, status, pollStart, err, resp, histVars >>

NextFilter == Filter

SpecFilter == InitFilter /\ [][NextFilter]_vars

\* address resolution: one caller at a time, every preference and every set
\* of interfaces
NextResolve ==
    \/ \E p \in {1} : DirectCall(p)
    \/ \E p \in {1} : PowerOnWithCooldown(p)
    \/ \E p \in {1} : PowerOn(p)
    \/ \E p \in {1} : powerOn(p)
    \/ \E p \in {1} : PollTick(p)
    \/ \E p \in {1} : PollTimeout(p)
    \/ \E p \in {1} : DirectReturn(p)
    \/ Tick
    \/ VmChange

SpecResolve == InitResolve /\ [][NextResolve]_vars

\* the interfaces Instances.Get reports change between two calls: an address
\* is removed or added, the instance is recreated
NicChange ==
    /\ vmNics' \in NicConfigs \ {vmNics}
    /\ UNCHANGED << now, UsePrivateIp, cooldownSeconds, reqCtx, filterVars,
                    proxyVars, lockVars, host, LastPowerOnAttempt, powerOnMutex,
                    vmStatus, targetHost, pc, ctx, status, pollStart, err, resp,
                    histVars >>

\* address resolution against an instance whose interfaces change, by a
\* caller that may cancel its context while the call polls
NextReconfig ==
    \/ NextResolve
    \/ NicChange
    \/ \E p \in {1} : Cancel(p)
    \/ \E p \in {1} : PollCancelled(p)

SpecReconfig == InitResolve /\ [][NextReconfig]_vars

\* ------------------------------------------------- the locks, step by step
\* The same handlers with every lock operation a step of its own, next to
\* the ping routine.  What a remote call answers is left open here.

\* (mutant) RLock returns although a writer holds the lock
CanRLockAlways == TRUE

\* (mutant) a reader of the address waits for the gate as well
CanRLockUnderGate == hostMutex.w = NoHolder /\ powerOnMutex = NoHolder

\* m.hostMutex.RLock() returns only while no writer holds the lock
CanRLock == hostMutex.w = NoHolder

\* m.hostMutex.Lock() returns only once nobody holds the lock
CanWLock == hostMutex.w = NoHolder /\ hostMutex.r = {}

\* the positions in which a task is calling m.Host()
HostCallers == {"cooldownHost", "bindHost", "pingHost"}

\* (mutant) the ping routine returns without the deferred wg.Done()
WgDoneNever(n) == n

\* wg.Done()
WgDone(n) == n - 1

\* the deployments of the step-by-step handlers: setIp writes the address,
\* returns before it locks, or locks and finds no address to write
LockDeployments ==
    { << FALSE, NicBoth >>, << TRUE, NicPublicOnly >>, << FALSE, NicPrivateOnly >> }

InitLocks ==
    /\ \E d \in LockDeployments : UsePrivateIp = d[1] /\ vmNics = d[2]
    /\ cooldownSeconds = 200
    /\ vmStatus = "RUNNING"
    /\ ServerFilter
    /\ Fresh

\* the handler calls PowerOnWithCooldown: m.powerOnMutex.Lock()
GateLock(t) ==
    /\ t \in Procs
    /\ task[t] = "idle"
    /\ CanLock
    /\ powerOnMutex' = t
    /\ task' = [task EXCEPT ![t] = "check"]
    /\ UNCHANGED << now, reqCtx, config, filterVars, proxyVars, host,
                    LastPowerOnAttempt, vmStatus, targetHost, pc, ctx, status,
                    pollStart, err, resp, histVars, hostMutex, pingCtx, wg,
                    pingURL >>

\* PowerOnWithCooldown: the cooldown test; inside the window m.Host() is
\* called, otherwise the attempt is recorded and PowerOn entered
CooldownCheck(t) ==
    /\ task[t] = "check"
    /\ IF InCooldown(LastPowerOnAttempt, cooldownSeconds)
       THEN /\ task' = [task EXCEPT ![t] = "cooldownHost"]
            /\ UNCHANGED LastPowerOnAttempt
       ELSE /\ LastPowerOnAttempt' = NewAttemptTime
            /\ task' = [task EXCEPT ![t] = "remote"]
    /\ UNCHANGED << now, reqCtx, config, filterVars, proxyVars, host,
                    powerOnMutex, vmStatus, targetHost, pc, ctx, status,
                    pollStart, err, resp, histVars, hostMutex, pingCtx, wg,
                    pingURL >>

\* Host(): m.hostMutex.RLock()
RLock(t) ==
    /\ task[t] \in HostCallers
    /\ t \notin hostMutex.r
    /\ CanRLock
    /\ hostMutex' = [hostMutex EXCEPT !.r = @ \cup {t}]
    /\ UNCHANGED << now, reqCtx, config, filterVars, proxyVars, host,
                    LastPowerOnAttempt, powerOnMutex, vmStatus, targetHost, pc,
                    ctx, status, pollStart, err, resp, histVars, task, pingCtx,
                    wg, pingURL >>

\* Host(): return m.host and the deferred RUnlock; the caller goes on with
\* the value: the cooldown branch returns the error or nil, SetHost sets
\* p.Target.Host, the ping routine pings or skips
HostReturn(t) ==
    /\ task[t] \in HostCallers
    /\ t \in hostMutex.r
    /\ hostMutex' = [hostMutex EXCEPT !.r = @ \ {t}]
    /\ CASE task[t] = "cooldownHost" ->
              /\ task' = [task EXCEPT ![t] =
                            IF CooldownResult(host) = "nil" THEN "retOk"
                            ELSE "retErr"]
              /\ UNCHANGED << targetHost, pingURL >>
         [] task[t] = "bindHost" ->
              /\ targetHost' = JoinHostPort(host, Port)
              /\ task' = [task EXCEPT ![t] = "serve"]
              /\ UNCHANGED pingURL
         [] task[t] = "pingHost" ->
              /\ task' = [task EXCEPT ![t] = IF host = "" THEN "select"
                                              ELSE "pinging"]
              /\ pingURL' = host
              /\ UNCHANGED targetHost
    /\ UNCHANGED << now, reqCtx, config, filterVars, proxyVars, host,
                    LastPowerOnAttempt, powerOnMutex, vmStatus, pc, ctx, status,
                    pollStart, err, resp, histVars, pingCtx, wg >>

\* PowerOn up to its return or to its call of setIp: a remote call fails or
\* the poll loop times out, the status is one PowerOn does not act on, or
\* RUNNING is seen
Remote(t) ==
    /\ task[t] = "remote"
    /\ \E out \in {"retErr", "retOk", "setIp"} :
           task' = [task EXCEPT ![t] = out]
    /\ UNCHANGED << now, reqCtx, config, filterVars, proxyVars, host,
                    LastPowerOnAttempt, powerOnMutex, vmStatus, targetHost, pc,
                    ctx, status, pollStart, err, resp, histVars, hostMutex,
                    pingCtx, wg, pingURL >>

\* setIp before it locks: the two early returns
setIpEnter(t) ==
    /\ task[t] = "setIp"
    /\ task' = [task EXCEPT ![t] =
                  IF Len(Instance.NetworkInterfaces) = 0
                     \/ (UsePrivateIp /\ Instance.NetworkInterfaces[1].NetworkIP = "")
                  THEN "retErr" ELSE "setIpLock"]
    /\ UNCHANGED << now, reqCtx, config, filterVars, proxyVars, host,
                    LastPowerOnAttempt, powerOnMutex, vmStatus, targetHost, pc,
                    ctx, status, pollStart, err, resp, histVars, hostMutex,
                    pingCtx, wg, pingURL >>

\* setIp: m.hostMutex.Lock()
HostLock(t) ==
    /\ task[t] = "setIpLock"
    /\ CanWLock
    /\ hostMutex' = [hostMutex EXCEPT !.w = t]
    /\ task' = [task EXCEPT ![t] = "setIpWrite"]
    /\ UNCHANGED << now, reqCtx, config, filterVars, proxyVars, host,
                    LastPowerOnAttempt, powerOnMutex, vmStatus, targetHost, pc,
                    ctx, status, pollStart, err, resp, histVars, pingCtx, wg,
                    pingURL >>

\* setIp under the lock: m.host is assigned if there is an address, and the
\* deferred Unlock runs
setIpWrite(t) ==
    /\ task[t] = "setIpWrite"
    /\ LET r == setIp(Instance, UsePrivateIp, host) IN
       /\ host' = r.host
       /\ task' = [task EXCEPT ![t] = IF r.ok THEN "retOk" ELSE "retErr"]
    /\ hostMutex' = [hostMutex EXCEPT !.w = NoHolder]
    /\ UNCHANGED << now, reqCtx, config, filterVars, proxyVars,
                    LastPowerOnAttempt, powerOnMutex, vmStatus, targetHost, pc,
                    ctx, status, pollStart, err, resp, histVars, pingCtx, wg,
                    pingURL >>

\* PowerOnWithCooldown returns: the deferred m.powerOnMutex.Unlock(); the
\* handler answers 503 on an error and goes on to p.SetHost() otherwise
GateUnlock(t) ==
    /\ task[t] \in {"retOk", "retErr"}
    /\ powerOnMutex' = NoHolder
    /\ task' = [task EXCEPT ![t] = IF @ = "retOk" THEN "bindHost" ELSE "idle"]
    /\ UNCHANGED << now, reqCtx, config, filterVars, proxyVars, host,
                    LastPowerOnAttempt, vmStatus, targetHost, pc, ctx, status,
                    pollStart, err, resp, histVars, hostMutex, pingCtx, wg,
                    pingURL >>

\* p.ServeHTTP(w, r); the handler returns
Forward(t) ==
    /\ task[t] = "serve"
    /\ task' = [task EXCEPT ![t] = "idle"]
    /\ UNCHANGED << now, reqCtx, config, filterVars, proxyVars, host,
                    LastPowerOnAttempt, powerOnMutex, vmStatus, targetHost, pc,
                    ctx, status, pollStart, err, resp, histVars, hostMutex,
                    pingCtx, wg, pingURL >>

\* startPingRoutine: case <-ticker.C
PingTick ==
    /\ task[Prober] = "select"
    /\ task' = [task EXCEPT ![Prober] = "pingHost"]
    /\ UNCHANGED << now, reqCtx, config, filterVars, proxyVars, host,
                    LastPowerOnAttempt, powerOnMutex, vmStatus, targetHost, pc,
                    ctx, status, pollStart, err, resp, histVars, hostMutex,
                    pingCtx, wg, pingURL >>

\* startPingRoutine: client.Get(pingURL) returns, with a response or (after 5
\* seconds at the latest) with an error; the loop goes on
PingDone ==
    /\ task[Prober] = "pinging"
    /\ task' = [task EXCEPT ![Prober] = "select"]
    /\ pingURL' = ""
    /\ UNCHANGED << now, reqCtx, config, filterVars, proxyVars, host,
                    LastPowerOnAttempt, powerOnMutex, vmStatus, targetHost, pc,
                    ctx, status, pollStart, err, resp, histVars, hostMutex,
                    pingCtx, wg >>

\* startPingRoutine: case <-ctx.Done(): return, and the deferred wg.Done()
PingExit ==
    /\ task[Prober] = "select"
    /\ pingCtx = "done"
    /\ task' = [task EXCEPT ![Prober] = "exited"]
    /\ wg' = WgDone(wg)
    /\ UNCHANGED << now, reqCtx, config, filterVars, proxyVars, host,
                    LastPowerOnAttempt, powerOnMutex, vmStatus, targetHost, pc,
                    ctx, status, pollStart, err, resp, histVars, hostMutex,
                    pingCtx, pingURL >>

\* main: the shutdown signal arrives and cancel() is called
Shutdown ==
    /\ pingCtx = "live"
    /\ pingCtx' = "done"
    /\ UNCHANGED << now, reqCtx, config, filterVars, proxyVars, host,
                    LastPowerOnAttempt, powerOnMutex, vmStatus, targetHost, pc,
                    ctx, status, pollStart, err, resp, histVars, hostMutex,
                    task, wg, pingURL >>

NextLocks ==
    \/ \E t \in Procs : GateLock(t)
    \/ \E t \in Procs : CooldownCheck(t)
    \/ \E t \in Tasks : RLock(t)
    \/ \E t \in Tasks : HostReturn(t)
    \/ \E t \in Procs : Remote(t)
    \/ \E t \in Procs : setIpEnter(t)
    \/ \E t \in Procs : HostLock(t)
    \/ \E t \in Procs : setIpWrite(t)
    \/ \E t \in Procs : GateUnlock(t)
    \/ \E t \in Procs : Forward(t)
    \/ PingTick
    \/ PingDone
    \/ PingExit
    \/ Shutdown
    \/ Tick

SpecLocks == InitLocks /\ [][NextLocks]_vars

\* a select case that is ready again and again is taken (the runtime picks
\* among the ready cases at random), a reader gets the address lock once the
\* writer unlocks, and code that is not waiting for anything goes on; nothing
\* is assumed about how long a remote sequence takes
SpecLocksFair ==
    /\ SpecLocks
    /\ SF_vars(PingExit)
    /\ SF_vars(RLock(Prober))
    /\ WF_vars(HostReturn(Prober))
    /\ WF_vars(PingDone)
    /\ \A t \in Procs : WF_vars(setIpWrite(t))

\* ------------------------------------------------------------ termination
\* The handlers of main.go against a clock that runs for as long as a poll
\* loop waits for its timeout: time.After(5 * time.Minute) fires whatever
\* else happens.  Time counts here for that timeout only.

\* time passes while some poll loop has its timeout ahead
Clock ==
    /\ \E p \in Procs :
          pc[p] = "poll" /\ now - pollStart[p] < PollTimeoutSeconds
    /\ \A p \in Procs : ~(pc[p] = "poll" /\ ctx[p] = "done")
    /\ now' = now + TickSeconds
    /\ UNCHANGED << reqCtx, config, filterVars, proxyVars, lockVars, host,
                    LastPowerOnAttempt, powerOnMutex, vmStatus, targetHost, pc,
                    ctx, status, pollStart, err, resp, histVars >>

\* the README's deployment with a cooldown longer than the poll timeout
InitLive ==
    /\ UsePrivateIp = FALSE
    /\ vmNics = NicBoth
    /\ cooldownSeconds = 400
    /\ ServerFilter
    /\ Fresh

NextLive ==
    \/ \E p \in Procs : Request(p)
    \/ \E p \in Procs : PowerOnWithCooldown(p)
    \/ \E p \in Procs : PowerOn(p)
    \/ \E p \in Procs : powerOn(p)
    \/ \E p \in Procs : PollTick(p)
    \/ \E p \in Procs : PollTimeout(p)
    \/ \E p \in Procs : SetHost(p)
    \/ \E p \in Procs : ServeHTTP(p)
    \/ Clock
    \/ VmChange

\* every remote call returns (Instances.Get, Start and Resume, the round trip
\* to the backend), code that waits for nothing goes on, time passes and the
\* timeout of a poll loop fires; a goroutine waiting in m.powerOnMutex.Lock()
\* gets the mutex after finitely many unlocks (sync.Mutex hands it to a waiter
\* that has waited long).  Nothing is assumed about the instance.
SpecLive ==
    /\ InitLive
    /\ [][NextLive]_vars
    /\ WF_vars(Clock)
    /\ \A p \in Procs :
          /\ SF_vars(PowerOnWithCooldown(p))
          /\ WF_vars(PowerOn(p) \/ powerOn(p) \/ PollTimeout(p)
                        \/ SetHost(p) \/ ServeHTTP(p))

TypeOK ==
    /\ now \in 0 .. MaxTime
    /\ powerOnMutex \in Procs \cup {NoHolder}
    /\ vmStatus \in Statuses
    /\ \A p \in Procs : err[p] \in Errors

\* ------------------------------------------------------------------ claims

Others == {"STAGING"}    \* the statuses PowerOn does not act on
PastCheck(p) == pc[p] \in {"get", "powerOn", "poll", "ret"}

\* C1: at most one caller is inside the remote sequence (status query,
\* start/resume, polling) at any time; whoever is inside holds the gate, and
\* nobody holds it after its call has returned, whatever the return path.
C1_GateHeldForWholeSequence ==
    /\ \A p, q \in Procs : InSequence(p) /\ InSequence(q) => p = q
    /\ \A p \in Procs : InSequence(p) => powerOnMutex = p
    /\ \A p \in Procs : ~InSequence(p) => powerOnMutex # p

\* one caller polls while another waits for the gate
C1_Witness ==
    \E p, q \in Procs :
        /\ p # q
        /\ pc[p] = "poll" /\ calls[p].poll = 1
        /\ pc[q] = "call"

\* C2: the start times of two successive remote sequences are at least
\* cooldownSeconds apart, and no sequence begins inside the cooldown window.
C2_SequencesCooldownApart ==
    /\ starts[1] # ZeroTime => starts[2] - starts[1] >= cooldownSeconds
    /\ \A p \in Procs : branch[p] = "remote" => ~inWindow[p]

\* a second remote sequence is under way
C2_Witness ==
    /\ starts[1] # ZeroTime
    /\ \E p \in Procs : InSequence(p) /\ mySeq[p] = 2

\* C3 as stated: calls issued before the first remote sequence has ended
\* never begin a second sequence, however long the first one takes; all but
\* the first return from the cooldown branch without a remote call.
C3_OneSequenceHoweverLong ==
    ~lateCall =>
        \A p \in Procs :
            /\ mySeq[p] # 2
            /\ pc[p] = "ret" /\ mySeq[p] = 0 =>
                   branch[p] = "cooldown" /\ calls[p] = NoCalls

\* C3, amended: of the calls issued before the first remote sequence has
\* ended, every one but its initiator evaluates the cooldown only after that
\* sequence has ended; it returns from the cooldown branch without a remote
\* call if it does so less than cooldownSeconds after lastAttempt, and begins
\* a new sequence otherwise.
C3_OneSequencePerWindow ==
    ~lateCall =>
        \A p \in Procs :
            PastCheck(p) /\ mySeq[p] # 1 =>
                /\ FirstDone
                /\ IF inWindow[p]
                   THEN branch[p] = "cooldown" /\ calls[p] = NoCalls
                        /\ mySeq[p] = 0
                   ELSE branch[p] = "remote" /\ mySeq[p] = 2

\* the first sequence polled and ended; a call issued meanwhile has returned
\* from the cooldown branch
C3_Witness ==
    /\ ~lateCall
    /\ \E p, q \in Procs :
           /\ p # q
           /\ pc[p] = "ret" /\ mySeq[p] = 1 /\ calls[p].poll = 1
           /\ pc[q] = "ret" /\ branch[q] = "cooldown" /\ calls[q] = NoCalls

\* C4: lastAttempt is the start time of the latest remote sequence: it is
\* recorded before the first remote call and kept when the sequence fails,
\* times out or is cancelled; every call that evaluates the cooldown within
\* cooldownSeconds of it takes the cooldown branch and makes no remote call.
C4_AttemptRecordedAndKept ==
    /\ LastPowerOnAttempt = starts[2]
    /\ \A p \in Procs : InSequence(p) => LastPowerOnAttempt # ZeroTime
    /\ \A p \in Procs :
           pc[p] = "ret" /\ inWindow[p] =>
               branch[p] = "cooldown" /\ calls[p] = NoCalls

\* a sequence timed out; a later call inside the window took the cooldown
\* branch
C4_Witness ==
    \E p, q \in Procs :
        /\ pc[p] = "ret" /\ err[p] = "timeout"
        /\ pc[q] = "ret" /\ branch[q] = "cooldown" /\ inWindow[q]
        /\ LastPowerOnAttempt < now

\* C5: a call inside the cooldown window with a known address returns
\* success, issues no remote call and leaves the address as it was.
C5_CooldownWithAddress ==
    \A p \in Procs :
        pc[p] = "ret" /\ inWindow[p] /\ hostBefore[p] # "" =>
            /\ err[p] = "nil"
            /\ calls[p] = NoCalls
            /\ hostAfter[p] = hostBefore[p]

\* such a call has returned while the instance is not running
C5_Witness ==
    \E p \in Procs :
        /\ pc[p] = "ret" /\ inWindow[p] /\ hostBefore[p] # ""
        /\ err[p] = "nil"
        /\ vmStatus # "RUNNING"

\* C6: a call inside the cooldown window with no known address returns the
\* cooldown error without a remote call; the handler answers 503 and neither
\* binds the target nor forwards.
C6_CooldownWithoutAddress ==
    \A p \in Procs :
        /\ pc[p] = "ret" /\ inWindow[p] /\ hostBefore[p] = "" =>
               err[p] = "cooldown" /\ calls[p] = NoCalls
        /\ err[p] = "cooldown" =>
               /\ pc[p] \in {"ret", "idle"}
               /\ pc[p] = "idle" => resp[p] = 503

\* the handler has answered 503 to a request that met the cooldown error
C6_Witness ==
    \E p \in Procs : pc[p] = "idle" /\ err[p] = "cooldown" /\ resp[p] = 503

\* C7: a call that finds the cooldown expired (or no attempt made) queries
\* the control plane for the status, whether or not the address is known.
C7_ExpiredAlwaysQueries ==
    \A p \in Procs :
        /\ pc[p] = "get" => ~inWindow[p] /\ branch[p] = "remote"
        /\ pc[p] \in {"powerOn", "poll", "ret"} /\ ~inWindow[p] =>
               branch[p] = "remote" /\ calls[p].get = 1

\* the cooldown expired with the address known, and the status was queried
C7_Witness ==
    \E p \in Procs :
        /\ pc[p] = "ret" /\ ~inWindow[p] /\ hostBefore[p] # ""
        /\ mySeq[p] = 2 /\ calls[p].get = 1

\* C8: whenever PowerOnWithCooldown returns success the address is known, so
\* the handler never binds a target with an empty host.
C8_SuccessImpliesAddress ==
    \A p \in Procs :
        /\ pc[p] = "ret" /\ err[p] = "nil" => hostAfter[p] # ""
        /\ pc[p] = "serve" => targetHost # JoinHostPort("", Port)

\* C9: when the initial status is none of RUNNING, TERMINATED, SUSPENDED,
\* PowerOn returns success with no start or resume call, no poll, and the
\* address as it was.
C9_OtherStatusIsNoOp ==
    \A p \in Procs :
        /\ pc[p] \in {"powerOn", "poll"} => status[p] \notin Others
        /\ pc[p] = "ret" /\ status[p] \in Others =>
               /\ err[p] = "nil"
               /\ calls[p] = [get |-> 1, start |-> 0, resume |-> 0, poll |-> 0]
               /\ hostAfter[p] = hostBefore[p]

\* a call has returned after reading such a status
C9_Witness ==
    \E p \in Procs :
        pc[p] = "ret" /\ status[p] = "STAGING" /\ err[p] = "nil"

\* C10: TERMINATED leads to exactly one start call and no resume call,
\* SUSPENDED to exactly one resume call and no start call; when that call
\* fails PowerOn returns the error at once, without polling and with the
\* address as it was.
C10_OneTransitionCall ==
    \A p \in Procs :
        /\ pc[p] = "powerOn" => calls[p].start = 0 /\ calls[p].resume = 0
        /\ pc[p] \in {"poll", "ret"} /\ status[p] = "TERMINATED" =>
               calls[p].start = 1 /\ calls[p].resume = 0
        /\ pc[p] \in {"poll", "ret"} /\ status[p] = "SUSPENDED" =>
               calls[p].resume = 1 /\ calls[p].start = 0
        /\ pc[p] = "ret" /\ err[p] = "powerOn" =>
               calls[p].poll = 0 /\ hostAfter[p] = hostBefore[p]

\* a resume call failed and the error was returned
C10_Witness ==
    \E p \in Procs :
        /\ pc[p] = "ret" /\ err[p] = "powerOn"
        /\ status[p] = "SUSPENDED" /\ calls[p].resume = 1

\* ---- address resolution (setIp)

\* a call has returned from setIp: it saw RUNNING at once or in a poll
Resolved(p) ==
    /\ pc[p] = "ret" /\ branch[p] = "remote"
    /\ err[p] \in {"nil", "setIp"}
    /\ status[p] = "RUNNING" \/ calls[p].poll = 1

HasPrivate == Len(vmNics) > 0 /\ vmNics[1].NetworkIP # ""
IsPublic(i) ==
    Len(vmNics[i].AccessConfigs) > 0 /\ vmNics[i].AccessConfigs[1].NatIP # ""
HasPublic == \E i \in 1 .. Len(vmNics) : IsPublic(i)
PublicAddr ==
    LET i == CHOOSE k \in 1 .. Len(vmNics) :
                 IsPublic(k) /\ \A j \in 1 .. k - 1 : ~IsPublic(j)
    IN vmNics[i].AccessConfigs[1].NatIP

\* C11 as stated: the private address is published if it is preferred and
\* present, otherwise the first public one; resolution fails only if neither
\* is available (so prefer-private without a private address publishes the
\* public one).
C11_FallsBackToPublic ==
    \A p \in Procs :
        Resolved(p) =>
            IF UsePrivateIp /\ HasPrivate
            THEN err[p] = "nil" /\ hostAfter[p] = vmNics[1].NetworkIP
            ELSE IF HasPublic
            THEN err[p] = "nil" /\ hostAfter[p] = PublicAddr
            ELSE err[p] = "setIp"

\* C11, amended: under prefer-private the first interface's private address
\* is published and resolution fails without one, whatever public address
\* there is; otherwise the first public address found is published and
\* resolution fails without one.  A failure leaves the address as it was.
C11_ResolvesByPreference ==
    \A p \in Procs :
        Resolved(p) =>
            IF UsePrivateIp
            THEN IF HasPrivate
                 THEN err[p] = "nil" /\ hostAfter[p] = vmNics[1].NetworkIP
                 ELSE err[p] = "setIp" /\ hostAfter[p] = hostBefore[p]
            ELSE IF HasPublic
                 THEN err[p] = "nil" /\ hostAfter[p] = PublicAddr
                 ELSE err[p] = "setIp" /\ hostAfter[p] = hostBefore[p]

\* prefer-private, no private address, a public one: resolution failed
C11_Witness ==
    \E p \in Procs :
        /\ Resolved(p) /\ status[p] = "RUNNING"
        /\ UsePrivateIp /\ ~HasPrivate /\ HasPublic
        /\ err[p] = "setIp" /\ host = ""

\* C12: a private-only instance with usePrivateIp=false does not resolve; an
\* instance with both addresses resolves to the private one under
\* usePrivateIp=true and to the public NAT one under usePrivateIp=false.
C12_ResolutionCases ==
    \A p \in Procs :
        Resolved(p) =>
            /\ vmNics = NicPrivateOnly /\ ~UsePrivateIp =>
                   err[p] = "setIp" /\ host = ""
            /\ vmNics = NicBoth /\ UsePrivateIp =>
                   err[p] = "nil" /\ host = "10.0.0.5"
            /\ vmNics = NicBoth /\ ~UsePrivateIp =>
                   err[p] = "nil" /\ host = "203.0.113.5"
            /\ vmNics = NicSecondPublic /\ ~UsePrivateIp =>
                   err[p] = "nil" /\ host = "203.0.113.6"

\* both addresses, private preferred: the private one was published
C12_Witness ==
    \E p \in Procs :
        /\ Resolved(p) /\ calls[p].poll = 1
        /\ vmNics = NicBoth /\ UsePrivateIp
        /\ host = "10.0.0.5"

\* ---- scenarios

\* the call read TERMINATED, its start call succeeded and one of its polls
\* saw RUNNING (a poll that does not see RUNNING does not end the loop)
StartedThenRunning(p) ==
    /\ pc[p] = "ret"
    /\ status[p] = "TERMINATED" /\ calls[p].start = 1 /\ calls[p].poll = 1
    /\ err[p] \in {"nil", "setIp"}

\* C13 as stated: TERMINATED, a successful start and a poll that sees RUNNING
\* with a public NAT address A give success, the address A, and the target
\* A:port at the handler's next bind.
C13_StartedGivesPublic ==
    [][\A p \in Procs :
          StartedThenRunning(p) /\ HasPublic =>
              /\ err[p] = "nil"
              /\ host = PublicAddr
              /\ pc'[p] = "serve" => targetHost' = << PublicAddr, Port >>]_vars

\* C13, amended: the same provided public addresses are preferred
\* (usePrivateIp=false).
C13_StartedGivesPublicIfPreferred ==
    [][\A p \in Procs :
          StartedThenRunning(p) /\ HasPublic /\ ~UsePrivateIp =>
              /\ err[p] = "nil"
              /\ host = PublicAddr
              /\ pc'[p] = "serve" => targetHost' = << PublicAddr, Port >>]_vars

\* such a call has returned success with the NAT address published
C13_Witness ==
    \E p \in Procs :
        /\ StartedThenRunning(p) /\ ~UsePrivateIp
        /\ err[p] = "nil" /\ host = "203.0.113.5"

\* a call of the handler has timed out (the error stays with the goroutine
\* until its next request)
SomeTimedOut == \E p \in Procs : err[p] = "timeout" /\ pc[p] \in {"ret", "idle"}

\* C14: a call returns the timeout error only from the poll loop, 5 minutes
\* or more after its transition call succeeded; the address is then as it
\* was before the call, lastAttempt is kept and the gate is free.  A request
\* that afterwards evaluates the cooldown cooldownSeconds or more after
\* lastAttempt takes the gate, records a new attempt and starts a new
\* sequence with a status query.
C14_TimeoutThenFreshSequence ==
    [][\A p \in Procs :
          /\ err'[p] = "timeout" /\ pc[p] # pc'[p] /\ pc'[p] = "ret" =>
                 /\ pc[p] = "poll"
                 /\ status[p] \in {"TERMINATED", "SUSPENDED"}
                 /\ now - pollStart[p] >= PollTimeoutSeconds
                 /\ host' = host /\ hostAfter'[p] = hostBefore[p]
                 /\ LastPowerOnAttempt' = LastPowerOnAttempt
                 /\ powerOnMutex = p /\ powerOnMutex' = NoHolder
          /\ SomeTimedOut /\ pc[p] = "call" /\ pc'[p] # "call"
             /\ now - LastPowerOnAttempt >= cooldownSeconds =>
                 /\ pc'[p] = "get" /\ calls'[p] = NoCalls
                 /\ powerOnMutex' = p /\ LastPowerOnAttempt' = now
          /\ SomeTimedOut /\ pc[p] = "get" /\ pc'[p] # "get" =>
                 calls'[p].get = 1]_vars

\* a request was answered 503 after a timeout, with the address still
\* unknown; a later one has queried the status again
C14_Witness ==
    \E p, q \in Procs :
        /\ pc[p] = "idle" /\ err[p] = "timeout" /\ resp[p] = 503
        /\ pc[q] \in {"powerOn", "poll", "ret"}
        /\ mySeq[q] = 2 /\ calls[q].get = 1
        /\ hostBefore[q] = ""

\* ---- cancellation

\* C15 as stated: a call whose context is cancelled while it polls returns
\* the cancellation's error.
C15_CancelledReturnsCtxError ==
    [][\A p \in Procs :
          pc[p] = "poll" /\ ctx[p] = "done" /\ pc'[p] # "poll" =>
              pc'[p] = "ret" /\ err'[p] = "ctx"]_vars

\* C15, amended: such a call eventually leaves the loop; it returns the
\* cancellation's error, or the timeout error if the poll timeout has elapsed
\* as well, never success; on its return the gate is freed, lastAttempt is
\* still the start of this call's sequence and the address is as it was.
C15_CancelledUnwinds ==
    /\ [][\A p \in Procs :
             pc[p] = "poll" /\ ctx[p] = "done" /\ pc'[p] # "poll" =>
                 /\ pc'[p] = "ret"
                 /\ \/ err'[p] = "ctx"
                    \/ /\ err'[p] = "timeout"
                       /\ now - pollStart[p] >= PollTimeoutSeconds
                 /\ powerOnMutex = p /\ powerOnMutex' = NoHolder
                 /\ LastPowerOnAttempt' = LastPowerOnAttempt
                 /\ LastPowerOnAttempt = starts[2]
                 /\ host' = host /\ hostAfter'[p] = hostBefore[p]]_vars
    /\ \A p \in Procs : (pc[p] = "poll" /\ ctx[p] = "done") ~> (pc[p] = "ret")

\* a cancelled call has returned the cancellation's error and the caller that
\* waited for the gate has gone on
C15_Witness ==
    \E p, q \in Procs :
        /\ ~lateCall
        /\ pc[p] = "ret" /\ err[p] = "ctx" /\ mySeq[p] = 1
        /\ pc[q] = "ret" /\ branch[q] = "cooldown"
        /\ LastPowerOnAttempt = starts[2]

\* C16: whatever happens to a request, its handler's PowerOnWithCooldown runs
\* with the background context: a client that goes away cancels nothing the
\* call reads, the sequence keeps the gate, and the call never returns a
\* cancellation error: it ends in success, a failure of the control plane or
\* of the address resolution, or the timeout.
C16_DisconnectDoesNotAbort ==
    \A p \in Procs :
        /\ pc[p] \in {"call", "get", "powerOn", "poll", "ret"} =>
               ctx[p] = "background"
        /\ InSequence(p) => powerOnMutex = p
        /\ pc[p] = "ret" /\ branch[p] = "remote" =>
               err[p] \in {"nil", "metadata", "setIp", "powerOn", "timeout"}

\* the client went away during the sequence, which went on to poll, saw
\* RUNNING and published the address
C16_Witness ==
    \E p \in Procs :
        /\ reqCtx[p] = "done"
        /\ pc[p] = "ret" /\ calls[p].poll = 1
        /\ err[p] = "nil" /\ host # ""

\* ---- access filter

\* the addresses of a block: those between its first and its last
AddrsOf(b) ==
    LET size == 2 ^ (AddrBits - b.bits)
        lo == b.base - (b.base % size)
    IN { [fam |-> b.fam, val |-> v] : v \in lo .. lo + size - 1 }

\* C19: IpIsAllowed is true exactly if the resolved client address is an
\* address (the text parsed) and lies in one of the configured blocks; it is
\* false for a text that does not parse and for an empty allow-list.
C19_AllowedIffInSomeBlock ==
    verdict.done =>
        /\ verdict.allowed <=>
               /\ verdict.ip # NilIP
               /\ \E i \in 1 .. Len(filterConfig.AllowedIps) :
                      verdict.ip \in AddrsOf(filterConfig.AllowedIps[i])
        /\ verdict.ip = NilIP => ~verdict.allowed
        /\ filterConfig.AllowedIps = << >> => ~verdict.allowed

\* the address came from the header and only the second block has it
C19_Witness ==
    /\ verdict.done /\ verdict.allowed
    /\ filterConfig.AllowedIps = << Block10, Block192 >>
    /\ verdict.ip = [fam |-> 4, val |-> 4]
    /\ request.RemoteAddr = Peer8

\* the header's entries, and an entry without its blanks
Entries == Split(request.Header, ",")
Unblank(t) == SelectSeq(t, LAMBDA x : x # " ")
PeerIP(a) ==
    CASE a = Peer10 -> [fam |-> 4, val |-> 0]
      [] a = Peer192 -> [fam |-> 4, val |-> 4]
      [] a = Peer8 -> [fam |-> 4, val |-> 6]
      [] a = PeerLoop6 -> [fam |-> 6, val |-> 1]

\* C20: with the header configured and k entries, none of them blank, depth
\* d < k selects the entry d places left of the last one, without its
\* blanks (its address, when the entry is an IPv4 address); depth d >= k
\* falls back to the peer address.
C20_DepthCountsFromRight ==
    LET k == Len(Entries)
        d == filterConfig.IpDepth
    IN
    /\ verdict.done
    /\ filterConfig.IpForwardedHeader # ""
    /\ \A i \in 1 .. k : Unblank(Entries[i]) # << >>
    /\ d >= 0
    => IF d < k
       THEN /\ verdict.candidate = Unblank(Entries[k - d])
            /\ Entries[k - d] \in { << "10.0.0.2" >>, << " ", "8.8.8.8" >>,
                                    << "192.168.1.1", " " >> } =>
                   verdict.ip = [fam |-> 4, val |-> V4Value[Unblank(Entries[k - d])[1]]]
       ELSE /\ verdict.candidate = request.RemoteAddr
            /\ verdict.ip = PeerIP(request.RemoteAddr)

\* three entries, depth 2: the leftmost one was selected
C20_Witness ==
    /\ verdict.done
    /\ filterConfig.IpForwardedHeader # "" /\ filterConfig.IpDepth = 2
    /\ request.Header = << "192.168.1.1", " ", ",", "bogus", ",", " ", "8.8.8.8" >>
    /\ verdict.candidate = << "192.168.1.1" >>
    /\ verdict.ip = [fam |-> 4, val |-> 4]

\* ---- the request handler

\* C17: a request gets exactly one answer, decided in this order: 403 at
\* once, with no call, if the filter rejects it; else 503, without binding,
\* if its PowerOnWithCooldown call returned an error of any kind; else it is
\* bound and forwarded.  Only a request whose own call returned success is
\* forwarded.
C17_ThreeOutcomesInOrder ==
    /\ [](\A p \in Procs :
             /\ resp[p] \in {0, 403, 503, 200}
             /\ pc[p] # "idle" => resp[p] = 0
             /\ pc[p] = "serve" => err[p] = "nil"
             /\ resp[p] = 503 => err[p] \in Errors \ {"nil"}
             /\ resp[p] \in {200, 403} => err[p] = "nil")
    /\ [][\A p \in Procs :
             /\ resp'[p] # resp[p] =>
                    CASE resp'[p] = 0 -> pc[p] = "idle" /\ pc'[p] = "call"
                      [] resp'[p] = 403 ->
                             pc[p] = "idle" /\ pc'[p] = "idle"
                      [] resp'[p] = 503 ->
                             /\ pc[p] = "ret" /\ err[p] # "nil"
                             /\ pc'[p] = "idle" /\ targetHost' = targetHost
                      [] resp'[p] = 200 -> pc[p] = "serve" /\ err[p] = "nil"
                      [] OTHER -> FALSE
             /\ pc[p] = "ret" /\ pc'[p] # "ret" =>
                    IF err[p] = "nil"
                    THEN pc'[p] = "serve" /\ targetHost' = << host, Port >>
                    ELSE pc'[p] = "idle" /\ resp'[p] = 503]_vars

\* one request was answered 503 after a timeout, another one was forwarded
C17_Witness ==
    \E p, q \in Procs :
        /\ pc[p] = "idle" /\ resp[p] = 503 /\ err[p] = "timeout"
        /\ pc[q] = "idle" /\ resp[q] = 200

\* C18: a rejected request takes no gate, makes no call and changes neither
\* lastAttempt nor the address nor the bound target: its handler has
\* returned, and the step that answers 403 changes nothing else.
C18_RejectedHasNoEffect ==
    /\ [](\A p \in Procs :
             resp[p] = 403 =>
                 /\ pc[p] = "idle" /\ powerOnMutex # p
                 /\ calls[p] = NoCalls /\ branch[p] = "")
    /\ [][\A p \in Procs :
             resp'[p] = 403 /\ resp[p] # 403 =>
                 /\ pc' = pc
                 /\ UNCHANGED << powerOnMutex, LastPowerOnAttempt, host,
                                 targetHost, calls, starts, vmStatus >>]_vars

\* a request was rejected while another handler held the gate and polled;
\* an address was known
C18_Witness ==
    \E p, q \in Procs :
        /\ resp[p] = 403 /\ pc[p] = "idle"
        /\ pc[q] = "poll" /\ powerOnMutex = q
        /\ host # ""

\* ---- port stripping

\* the forms of a candidate with a port suffix: host:port with an IPv4 host,
\* [host]:port with an IPv6 host
PortNumbers == {"8080", "80", "443"}
HasPortSuffix(t) ==
    \/ Len(t) = 3 /\ t[1] \in DOMAIN V4Value /\ t[2] = ":" /\ t[3] \in PortNumbers
    \/ /\ Len(t) >= 5 /\ t[1] = "["
       /\ t[Len(t) - 2] = "]" /\ t[Len(t) - 1] = ":" /\ t[Len(t)] \in PortNumbers
HostOf(t) ==
    IF t[1] = "[" THEN SubSeq(t, 2, Len(t) - 3) ELSE SubSeq(t, 1, Len(t) - 2)

\* C21: a candidate host:port or [host]:port resolves to host, a candidate
\* without a port suffix resolves to itself; a bare IPv6 address selected
\* from the header and contained in an allowed block is resolved to that
\* address and the request is allowed.
C21_StripsOnlyPresentPort ==
    verdict.done =>
        /\ HasPortSuffix(verdict.candidate) =>
               verdict.ip = ParseIP(HostOf(verdict.candidate))
        /\ ~HasPortSuffix(verdict.candidate) =>
               verdict.ip = ParseIP(verdict.candidate)
        /\ /\ verdict.candidate = V6Loopback
           /\ filterConfig.IpForwardedHeader # ""
           /\ \E i \in 1 .. Len(filterConfig.AllowedIps) :
                  filterConfig.AllowedIps[i] = BlockLoop6
           => verdict.ip = [fam |-> 6, val |-> 1] /\ verdict.allowed

\* ---- the shared proxy object

\* C22: a request is forwarded only from the position its own SetHost left
\* it in; SetHost runs only after the request's PowerOnWithCooldown returned
\* success and sets the target to the runtime address it reads then, joined
\* with the configured port; every forward is preceded by such a bind of the
\* same request.
C22_BindBeforeForward ==
    /\ [](\A p \in Procs : pc[p] = "serve" => err[p] = "nil" /\ resp[p] = 0)
    /\ [][\A p \in Procs :
             /\ pc'[p] = "serve" /\ pc[p] # "serve" =>
                    /\ pc[p] \in {"ret", "hdrs"} /\ err[p] = "nil"
                    /\ host' = host
                    /\ targetHost' = << host, Port >>
             /\ resp'[p] \in {200, 502} /\ resp'[p] # resp[p] =>
                    pc[p] = "serve" /\ pc'[p] = "idle"
             /\ pc[p] \in {"idle", "call", "get", "powerOn", "poll"} =>
                    pc'[p] # "serve" /\ (resp'[p] \in {200, 502} => resp'[p] = resp[p])]_vars

\* one request has been forwarded to the published address, another one is
\* bound and about to be forwarded
C22_Witness ==
    \E p, q \in Procs :
        /\ pc[p] = "idle" /\ resp[p] = 200
        /\ pc[q] = "serve"
        /\ targetHost = << "203.0.113.5", Port >>

\* C23: the forwarded-for, forwarded-host and trace-context values a request
\* is forwarded with are those of that request: when a handler's ServeHTTP
\* runs, the proxy object holds the values its own SetRequestHeaders stored.
C23_HeadersOfSameRequest ==
    [][\A p \in Procs :
          pc[p] = "serve" /\ pc'[p] # "serve" =>
              proxyHdr = RequestHeaders(p)]_vars

\* ---- locks

\* C24: a request that has arrived while the address is known does not wait
\* for another request's remote sequence: its PowerOnWithCooldown can go on
\* although the other one holds the gate.
C24_NotSerializedBehindPowerOn ==
    \A p, q \in Procs :
        /\ p # q
        /\ pc[p] = "call" /\ host # ""
        /\ InSequence(q) /\ powerOnMutex = q
        => ENABLED PowerOnWithCooldown(p)

\* C25: the address is written only by a task that holds the address lock
\* exclusively and the gate; a task uses the value of the address only while
\* it holds the address lock shared; nobody reads while somebody writes and
\* no two tasks write at once.
C25_AddressLockDiscipline ==
    /\ [](/\ hostMutex.w # NoHolder =>
                hostMutex.r = {} /\ powerOnMutex = hostMutex.w
          /\ \A t, u \in Tasks :
                task[t] = "setIpWrite" /\ task[u] = "setIpWrite" => t = u
          /\ \A t \in Tasks : task[t] = "setIpWrite" => hostMutex.w = t)
    /\ [][/\ host' # host =>
                /\ hostMutex.w \in Procs
                /\ powerOnMutex = hostMutex.w
                /\ task[hostMutex.w] = "setIpWrite"
                /\ hostMutex.r = {}
          /\ \A t \in Tasks :
                task[t] \in HostCallers /\ task'[t] # task[t] =>
                    t \in hostMutex.r /\ hostMutex.w = NoHolder]_vars

\* a handler is writing a new value over a known address while the ping
\* routine and another handler wait to read it
C25_Witness ==
    \E t, u \in Procs :
        /\ task[t] = "setIpWrite" /\ hostMutex.w = t
        /\ host # ""
        /\ task[u] = "bindHost"
        /\ task[Prober] = "pingHost"

\* ---- the ping routine

\* C26: the ping routine never holds the gate and changes neither
\* lastAttempt nor the address; it reads the address under the shared lock
\* and pings only an address that is not empty; every tick of it comes to
\* its end (a ping or a skip), however long a handler keeps the gate.
C26_ProberIndependentOfGate ==
    /\ [](/\ powerOnMutex # Prober /\ hostMutex.w # Prober
          /\ task[Prober] = "pinging" <=> pingURL # "")
    /\ [][/\ task'[Prober] # task[Prober] \/ (Prober \in hostMutex'.r) # (Prober \in hostMutex.r) =>
                UNCHANGED << powerOnMutex, LastPowerOnAttempt, host, targetHost >>
          /\ task[Prober] = "pingHost" /\ task'[Prober] # "pingHost" =>
                /\ Prober \in hostMutex.r
                /\ IF host = "" THEN task'[Prober] = "select" /\ pingURL' = ""
                   ELSE task'[Prober] = "pinging" /\ pingURL' = host]_vars
    /\ (task[Prober] = "pingHost") ~> (task[Prober] = "select")

\* a ping is under way while a handler holds the gate inside its remote
\* sequence, and the address is known
C26_Witness ==
    \E t \in Procs :
        /\ task[t] = "remote" /\ powerOnMutex = t
        /\ task[Prober] = "pinging" /\ pingURL = host /\ host # ""

\* C27: once its context is cancelled the ping routine eventually leaves its
\* loop, whatever the address is and whether or not a ping is under way; it
\* signals the wait group on leaving, once, and only then.
C27_ProberStopsOnCancel ==
    /\ [](/\ wg \in {0, 1}
          /\ wg = 0 <=> task[Prober] = "exited"
          /\ task[Prober] = "exited" => pingCtx = "done" /\ Prober \notin hostMutex.r)
    /\ [][/\ wg' # wg =>
                /\ wg' = wg - 1
                /\ task[Prober] = "select" /\ task'[Prober] = "exited"
                /\ pingCtx = "done"
          /\ task[Prober] = "exited" => task'[Prober] = "exited"]_vars
    /\ (pingCtx = "done") ~> (task[Prober] = "exited" /\ wg = 0)

\* the routine has left its loop while the address is known and a handler is
\* inside its remote sequence
C27_Witness ==
    \E t \in Procs :
        /\ task[Prober] = "exited" /\ wg = 0 /\ pingCtx = "done"
        /\ host # ""
        /\ task[t] = "remote"

\* ---- retries and lastAttempt

\* C28: a call issues the initial status query at most once and the start or
\* resume call at most once; when one of them fails the call returns the
\* error without a further remote call; remote calls are made only by a call
\* that holds the gate and found the cooldown expired.
C28_NoRetryOutsidePoll ==
    /\ [](\A p \in Procs :
             /\ calls[p].get <= 1
             /\ calls[p].start + calls[p].resume <= 1
             /\ pc[p] = "ret" /\ err[p] = "metadata" =>
                    calls[p] = [get |-> 1, start |-> 0, resume |-> 0, poll |-> 0]
             /\ pc[p] = "ret" /\ err[p] = "powerOn" =>
                    /\ calls[p].get = 1 /\ calls[p].poll = 0
                    /\ calls[p].start + calls[p].resume = 1)
    /\ [][\A p \in Procs :
             /\ pc[p] = "get" /\ pc'[p] = "ret" /\ calls'[p].get = 1
                /\ err'[p] = "metadata" => status'[p] = ""
             /\ calls'[p] # calls[p] /\ calls'[p] # NoCalls =>
                    /\ InSequence(p) /\ powerOnMutex = p
                    /\ branch[p] = "remote" /\ ~inWindow[p]]_vars

\* the status query of one call failed; a call made afterwards, inside the
\* cooldown window, returned without contacting the control plane
C28_Witness ==
    \E p, q \in Procs :
        /\ pc[p] = "ret" /\ err[p] = "metadata" /\ calls[p].get = 1
        /\ pc[q] = "ret" /\ branch[q] = "cooldown" /\ calls[q] = NoCalls
        /\ inWindow[q]

\* C29: a call that evaluates the cooldown inside the window leaves
\* lastAttempt as it is; a call that finds it expired sets lastAttempt to the
\* current time, which is later than the old value, and nothing the call does
\* afterwards (a failure, a timeout, a cancellation) changes it again;
\* lastAttempt never decreases.
C29_LastAttemptMonotone ==
    [][/\ LastPowerOnAttempt' >= LastPowerOnAttempt
       /\ \A p \in Procs :
             /\ pc[p] = "call" /\ pc'[p] # "call" =>
                    IF LastPowerOnAttempt # ZeroTime
                       /\ now - LastPowerOnAttempt < cooldownSeconds
                    THEN LastPowerOnAttempt' = LastPowerOnAttempt
                    ELSE /\ LastPowerOnAttempt' > LastPowerOnAttempt
                         /\ LastPowerOnAttempt' = now
             /\ pc[p] # "call" /\ pc'[p] # pc[p] =>
                    LastPowerOnAttempt' = LastPowerOnAttempt]_vars

\* the call that began the second sequence has failed; lastAttempt is the
\* time of that call, later than the first attempt
C29_Witness ==
    \E p \in Procs :
        /\ pc[p] = "ret" /\ mySeq[p] = 2 /\ err[p] = "metadata"
        /\ starts[1] # ZeroTime
        /\ LastPowerOnAttempt > starts[1]
        /\ LastPowerOnAttempt = now

\* ---- failed resolution

\* the instance as reported now gives setIp nothing to publish
Unresolvable ==
    \/ Len(vmNics) = 0
    \/ UsePrivateIp /\ ~HasPrivate
    \/ ~UsePrivateIp /\ ~HasPublic

\* C30: a call whose status query or poll sees RUNNING returns the resolution
\* error exactly if there is no interface, no private address under
\* prefer-private, or no public NAT address otherwise; the step that returns
\* this error leaves the address as it was, known or not.
C30_FailedResolutionKeepsAddress ==
    [][\A p \in Procs :
          /\ pc[p] \in {"get", "poll"} /\ pc'[p] = "ret"
             /\ err'[p] \in {"nil", "setIp"}
             /\ (status'[p] = "RUNNING" \/ pc[p] = "poll") =>
                 IF Unresolvable
                 THEN err'[p] = "setIp" /\ host' = host
                      /\ hostAfter'[p] = hostBefore[p]
                 ELSE err'[p] = "nil" /\ host' # ""
          /\ err'[p] = "setIp" /\ pc[p] # "ret" /\ pc'[p] = "ret" =>
                 host' = host /\ Unresolvable]_vars

\* the address was published by an earlier call; the NAT address is gone and
\* the resolution of a later call has failed: the old address is still there
C30_Witness ==
    \E p \in Procs :
        /\ Resolved(p) /\ err[p] = "setIp" /\ mySeq[p] = 2
        /\ ~UsePrivateIp /\ vmNics = NicPrivateOnly
        /\ host = "203.0.113.5" /\ hostBefore[p] = host

\* ---- waiting for the gate

\* C31: a request whose call finds the gate taken cannot go on before the
\* holder has returned; when it evaluates the cooldown nobody is inside a
\* remote sequence, lastAttempt is the start of the latest sequence (the
\* value its holder wrote), and the branch taken is the one that value and
\* the current time decide.
C31_CooldownReadAfterGate ==
    /\ [](\A p, q \in Procs :
             pc[p] = "call" /\ InSequence(q) =>
                 powerOnMutex = q /\ ~ENABLED PowerOnWithCooldown(p))
    /\ [][\A p \in Procs :
             pc[p] = "call" /\ pc'[p] # "call" =>
                 /\ powerOnMutex = NoHolder
                 /\ \A q \in Procs : ~InSequence(q)
                 /\ LastPowerOnAttempt = starts[2]
                 /\ branch'[p] = "cooldown" <=>
                        /\ LastPowerOnAttempt # ZeroTime
                        /\ now - LastPowerOnAttempt < cooldownSeconds
                 /\ branch'[p] = "cooldown" => pc'[p] = "ret" /\ calls'[p] = NoCalls
                 /\ branch'[p] # "cooldown" => branch'[p] = "remote" /\ pc'[p] = "get"]_vars

\* the first sequence polled and returned; a request issued before it ended,
\* when the recorded attempt was at most the one of that sequence, has taken
\* the cooldown branch on the value the sequence wrote
C31_Witness ==
    \E p, q \in Procs :
        /\ p # q /\ ~lateCall
        /\ starts[1] = ZeroTime /\ LastPowerOnAttempt = starts[2]
        /\ pc[q] \in {"ret", "serve", "idle"} /\ resp[q] \in {0, 200}
        /\ pc[p] = "ret" /\ branch[p] = "cooldown" /\ inWindow[p]
        /\ err[p] = "nil" /\ host # ""

\* ---- the poll loop

\* C32: a poll whose status query fails changes nothing but the record of
\* the failure: the caller stays in the loop holding the gate, with no error
\* returned and the address untouched, and the next poll is possible; the
\* loop is left only with a poll that saw RUNNING, with the timeout once five
\* minutes have passed, or with the context's error once it is done.
C32_FailedPollContinues ==
    /\ [](\A p \in Procs :
             pollFailed[p] =>
                 pc[p] = "poll" /\ powerOnMutex = p /\ ENABLED PollTick(p))
    /\ [][\A p \in Procs :
             /\ ~pollFailed[p] /\ pollFailed'[p] =>
                    /\ pc[p] = "poll" /\ pc'[p] = "poll"
                    /\ err' = err /\ host' = host
                    /\ powerOnMutex' = powerOnMutex
             /\ pc[p] = "poll" /\ pc'[p] # "poll" =>
                    /\ pc'[p] = "ret"
                    /\ \/ err'[p] \in {"nil", "setIp"} /\ vmStatus = "RUNNING"
                          /\ ctx[p] = "live"
                       \/ err'[p] = "timeout"
                          /\ now - pollStart[p] >= PollTimeoutSeconds
                       \/ err'[p] = "ctx" /\ ctx[p] = "done"]_vars

\* a status query of the loop has failed while the context is live; the
\* caller is still polling and the machine has come up for the next poll
C32_Witness ==
    \E p \in Procs :
        /\ pc[p] = "poll" /\ pollFailed[p] /\ ctx[p] = "live"
        /\ vmStatus = "RUNNING" /\ now - pollStart[p] < PollTimeoutSeconds

\* C33: a poll that sees RUNNING ends the loop whether or not the address
\* can be resolved; when it cannot, the call returns the resolution error with
\* that very step, releases the gate, polls no more, and the runtime address
\* is what it was before the poll.
C33_UnresolvedPollReturnsAtOnce ==
    /\ [](\A p \in Procs :
             pc[p] = "ret" /\ err[p] = "setIp" =>
                 ~ENABLED PollTick(p) /\ powerOnMutex # p
                 /\ hostAfter[p] = hostBefore[p])
    /\ [][\A p \in Procs :
             /\ pc[p] = "poll" /\ pc'[p] = "ret" /\ err'[p] = "setIp" =>
                    /\ vmStatus = "RUNNING" /\ Unresolvable
                    /\ host' = host /\ powerOnMutex' = NoHolder
             /\ pc[p] = "poll" /\ vmStatus = "RUNNING"
                /\ calls[p].poll = 0 /\ calls'[p].poll = 1
                /\ ~pollFailed'[p] =>
                    /\ pc'[p] = "ret"
                    /\ Unresolvable => err'[p] = "setIp" /\ host' = host
                    /\ ~Unresolvable => err'[p] = "nil"]_vars

\* an address was published by an earlier call; the machine was stopped and
\* lost its NAT address; the later call started it, its poll saw RUNNING and
\* returned the resolution error, and the old address is still published
C33_Witness ==
    \E p \in Procs :
        /\ pc[p] = "ret" /\ err[p] = "setIp" /\ calls[p].poll = 1
        /\ calls[p].start + calls[p].resume = 1
        /\ vmStatus = "RUNNING" /\ Unresolvable
        /\ hostBefore[p] # "" /\ host = hostBefore[p]

\* ---- the trust header

\* C34: with no trust header configured the candidate is the peer address
\* of the connection, the address checked is the peer's, and the verdict
\* depends on the peer address and the allowed blocks alone: it is the one
\* the same request gets without any forwarded-address header.
C34_NoHeaderMeansPeer ==
    verdict.done /\ filterConfig.IpForwardedHeader = "" =>
        /\ verdict.candidate = request.RemoteAddr
        /\ verdict.ip = PeerIP(request.RemoteAddr)
        /\ verdict.allowed <=>
               \E i \in 1 .. Len(filterConfig.AllowedIps) :
                   BlockContains(filterConfig.AllowedIps[i],
                                 PeerIP(request.RemoteAddr))
        /\ verdict.allowed =
               IpIsAllowed(filterConfig, [request EXCEPT !.Header = << >>])

\* no header name; the peer is outside the only allowed block and the header
\* names an address inside it: rejected
C34_Witness ==
    /\ verdict.done /\ filterConfig.IpForwardedHeader = ""
    /\ filterConfig.AllowedIps = << Block10 >>
    /\ request.RemoteAddr = Peer8
    /\ request.Header = << "10.0.0.2" >>
    /\ ~verdict.allowed

\* ---- the published address

\* C35: every write of the runtime address stores a non-empty string, so an
\* address once known is never cleared; a call that returns an error of any
\* kind, or success on a status it does not act on, leaves the address as it
\* was.
C35_AddressNeverCleared ==
    [][/\ host' # host => host' # ""
       /\ host # "" => host' # ""
       /\ \A p \in Procs :
             /\ pc[p] # "ret" /\ pc'[p] = "ret"
             /\ \/ err'[p] # "nil"
                \/ pc[p] = "get" /\ status'[p] # "RUNNING"
             => host' = host]_vars

\* an address is known from an earlier call; a later call started the
\* machine and was cancelled while polling: the address is still there
C35_Witness ==
    \E p \in Procs :
        /\ pc[p] = "ret" /\ err[p] = "ctx" /\ mySeq[p] = 2
        /\ hostBefore[p] # "" /\ host = hostBefore[p]

\* the remote sequence of p is the latest one begun: the attempt it recorded
\* is still the recorded one
LatestSequence(p) ==
    /\ branch[p] = "remote"
    /\ attemptAt[p] = LastPowerOnAttempt

\* C36: while the caller whose remote sequence failed has its error in hand,
\* another request that evaluates the cooldown inside the window of that
\* attempt makes no remote call and returns success exactly if an address was
\* known before the failed call began; the address is still that one, and a
\* request that got success in the cooldown branch is bound to it.
C36_CooldownAfterFailure ==
    [][\A q \in Procs :
          /\ \A p \in Procs \ {q} :
                /\ pc[p] = "ret" /\ LatestSequence(p)
                /\ err[p] \in {"metadata", "powerOn", "setIp", "timeout", "ctx"}
                /\ pc[q] = "call" /\ pc'[q] # "call" /\ inWindow'[q]
                => /\ pc'[q] = "ret" /\ branch'[q] = "cooldown"
                   /\ calls'[q] = NoCalls
                   /\ err'[q] = "nil" <=> hostBefore[p] # ""
                   /\ host' = hostBefore[p] /\ hostBefore'[q] = hostBefore[p]
                   /\ attemptAt'[q] = attemptAt[p]
          /\ pc[q] = "ret" /\ branch[q] = "cooldown" /\ pc'[q] # "ret" =>
                IF err[q] = "nil"
                THEN /\ hostBefore[q] # "" /\ pc'[q] = "serve"
                     /\ targetHost' = JoinHostPort(hostBefore[q], Port)
                ELSE pc'[q] = "idle" /\ resp'[q] = 503
                     /\ targetHost' = targetHost]_vars

\* the first sequence published the address; the second one, 300 s later,
\* failed at its status query; a request arriving in its window got success
\* from the cooldown branch and is about to be bound to the address
\* published before
C36_Witness ==
    \E p, q \in Procs :
        /\ p # q
        /\ pc[p] = "ret" /\ err[p] = "metadata" /\ mySeq[p] = 2
        /\ LatestSequence(p) /\ hostBefore[p] = "203.0.113.5"
        /\ pc[q] = "ret" /\ branch[q] = "cooldown" /\ err[q] = "nil"
        /\ attemptAt[q] = attemptAt[p] /\ hostBefore[q] = hostBefore[p]
        /\ vmStatus # "RUNNING" /\ ENABLED SetHost(q)

\* ---- the two locks together

\* the steps of task t
TaskStep(t) ==
    \/ GateLock(t) \/ CooldownCheck(t) \/ RLock(t) \/ HostReturn(t)
    \/ Remote(t) \/ setIpEnter(t) \/ HostLock(t) \/ setIpWrite(t)
    \/ GateUnlock(t) \/ Forward(t)
    \/ t = Prober /\ (PingTick \/ PingDone \/ PingExit)

\* t holds the address lock, shared or exclusive
HoldsAddressLock(t) == hostMutex.w = t \/ t \in hostMutex.r

\* C37: a task takes the gate only while it holds no address lock, and the
\* address lock only inside Host or setIp; whoever holds the address lock is
\* not in a remote call and its next step, the release, is possible at once;
\* a task that is out of PowerOnWithCooldown holds neither the gate nor the
\* write lock, and out of Host no read lock.  So no task ever waits for good:
\* whoever cannot step waits for a lock whose holder can.
C37_NoDeadlock ==
    /\ [](\A t \in Tasks :
             /\ HoldsAddressLock(t) =>
                    /\ task[t] \in HostCallers \cup {"setIpWrite"}
                    /\ ENABLED (HostReturn(t) \/ setIpWrite(t))
             /\ task[t] \in {"idle", "bindHost", "serve", "select", "pingHost",
                             "pinging", "exited"} =>
                    powerOnMutex # t /\ hostMutex.w # t
             /\ task[t] \notin HostCallers => t \notin hostMutex.r
             /\ task[t] # "exited" =>
                    \/ ENABLED TaskStep(t)
                    \/ \E u \in Tasks \ {t} :
                          /\ HoldsAddressLock(u) \/ powerOnMutex = u
                          /\ ENABLED TaskStep(u))
    /\ [][\A t \in Tasks :
             /\ powerOnMutex' = t /\ powerOnMutex # t =>
                    ~HoldsAddressLock(t) /\ ~HoldsAddressLock(t)'
             /\ HoldsAddressLock(t)' /\ ~HoldsAddressLock(t) =>
                    \/ powerOnMutex = t
                    \/ powerOnMutex # t /\ task[t] \in {"bindHost", "pingHost"}
             /\ HoldsAddressLock(t) => powerOnMutex' = powerOnMutex
                                       \/ powerOnMutex' # t]_vars

\* the holder of the gate waits for the write lock while the other handler
\* and the ping routine hold the read lock
C37_Witness ==
    \E t, u \in Procs :
        /\ task[t] = "setIpLock" /\ powerOnMutex = t
        /\ hostMutex.r = {u, Prober} /\ task[u] = "bindHost"
        /\ ~ENABLED TaskStep(t)

\* ---- termination

\* C38: a call that holds the gate leaves its remote sequence and returns,
\* at the latest with the timeout of its poll loop; a request waiting for the
\* gate gets it, its call returns, and the request is answered; whoever
\* returns has released the gate.
C38_EveryCallReturns ==
    /\ \A p \in Procs : InSequence(p) ~> (pc[p] = "ret" /\ powerOnMutex # p)
    /\ \A p \in Procs :
          (pc[p] = "call") ~> (pc[p] = "idle" /\ resp[p] \in {200, 503})
    /\ [][\A p \in Procs :
             pc[p] = "call" /\ pc'[p] # "call" =>
                 powerOnMutex = NoHolder /\ pc'[p] \in {"get", "ret"}]_vars

\* the first sequence ended with the timeout of its poll loop; the request
\* that had arrived before it ended, and waited for the gate, has its result
\* from the cooldown branch
C38_Witness ==
    \E p, q \in Procs :
        /\ p # q /\ ~lateCall
        /\ pc[p] = "ret" /\ err[p] = "timeout" /\ mySeq[p] = 1
        /\ LatestSequence(p) /\ now >= PollTimeoutSeconds
        /\ pc[q] = "ret" /\ branch[q] = "cooldown" /\ attemptAt[q] = attemptAt[p]

\* ---- the shared proxy target

\* C39: a request is forwarded to the target its own SetHost bound: when
\* ServeHTTP runs for it, Target.Host is what that SetHost wrote.
C39_ForwardedToOwnTarget ==
    [][\A p \in Procs :
          pc[p] = "serve" /\ pc'[p] # "serve" => targetHost = bound[p]]_vars

\* ---- empty entries of the trust header

\* the entry the depth selects, when it is in range
InRange == filterConfig.IpDepth \in 0 .. Len(Entries) - 1
Selected == Entries[Len(Entries) - filterConfig.IpDepth]

\* C40: with the header configured, a selected entry that is in range but
\* empty or blank makes the peer address the candidate: the address checked
\* is the peer's and the verdict is the one the peer address gets, not a
\* rejection for an unparsable entry.
C40_EmptyEntryFallsBack ==
    /\ verdict.done /\ filterConfig.IpForwardedHeader # ""
    /\ InRange /\ Unblank(Selected) = << >>
    => /\ verdict.candidate = request.RemoteAddr
       /\ verdict.ip = PeerIP(request.RemoteAddr)
       /\ verdict.allowed <=>
              \E i \in 1 .. Len(filterConfig.AllowedIps) :
                  BlockContains(filterConfig.AllowedIps[i],
                                PeerIP(request.RemoteAddr))

\* "bogus, " at depth 0: the blank entry after the comma is selected, and
\* the request of a peer in the allowed block is allowed although the header
\* names no address there
C40_Witness ==
    /\ verdict.done /\ filterConfig.IpForwardedHeader # ""
    /\ filterConfig.IpDepth = 0
    /\ request.Header = << "bogus", ",", " " >>
    /\ request.RemoteAddr = Peer192
    /\ filterConfig.AllowedIps = << Block10, Block192 >>
    /\ verdict.candidate = Peer192 /\ verdict.allowed

====
